---- MODULE Spec2Model ----
(***************************************************************************)
(* Duo student account cleanup: the cleanup orchestrator (main of          *)
(* scripts/duo_student_cleanup.py) with its DuoAdminAPI client, and the    *)
(* retrying client of scripts/duo_api_with_retry.py.                       *)
(*                                                                         *)
(* Python strings that the code inspects character by character           *)
(* (usernames, file lines) are sequences of one-character strings.         *)
(* Python's None is the string "<None>".                                   *)
(***************************************************************************)
EXTENDS Integers, Sequences, FiniteSets, TLC

VARIABLES
    args,                \* parsed command line: dry_run, interactive, username_file
    file_lines,          \* the lines of the file args.username_file names
    directory,           \* the remote service's accounts, in server order
    pc,                  \* position of main: collecting, processing, done, aborted
    offset,              \* main: offset of the next list_users page
    all_users,           \* main: records fetched so far
    usernames_to_check,  \* main: the candidate usernames
    idx,                 \* main: 1-based position of the for loop
    results,             \* main: the per-username result dicts
    calls,               \* every remote call, prompt, pause and file write, in order
    backup_file,         \* contents written to the backup file, one entry per write
    results_file,        \* what was written to the results CSV, one entry per write
    exc,                 \* the exception that left main, or None
    user_ids,            \* bulk_delete_users_safe: the ids to delete
    batch_size,          \* bulk_delete_users_safe: ids per batch
    progress_callback,   \* bulk_delete_users_safe: whether a callback was given
    bpc,                 \* position of bulk_delete_users_safe: running, returned
    pos,                 \* bulk_delete_users_safe: 1-based position in user_ids
    bulk_results,        \* bulk_delete_users_safe: the 'success' and 'failed' lists
    deletes,             \* one entry per finished delete_user_safe call
    progress,            \* the (processed, total) pairs given to the callback
    pauses,              \* id counts after which the pause between batches was taken
    attempt,             \* retry wrapper: index of the attempt in progress
    attempts,            \* retry wrapper: outcome of each attempt of this request
    sleeps               \* retry wrapper: the delays slept during this request

mainvars == <<args, file_lines, directory, pc, offset, all_users,
              usernames_to_check, idx, results, calls, backup_file,
              results_file, exc>>

bulkvars == <<user_ids, batch_size, progress_callback, bpc, pos, bulk_results,
              deletes, progress, pauses, attempt, attempts, sleeps>>

None == "<None>"

----------------------------------------------------------------------------
(* State of the other components *)

VARIABLES
    retry_params,        \* exponential_backoff_retry: the decorator's arguments
    rpc,                 \* retry wrapper around any func: calling, returned, raised
    last_exception,      \* retry wrapper: last_exception
    retry_out            \* retry wrapper: what the wrapper returned or raised

retryvars == <<retry_params, rpc, last_exception, retry_out>>

VARIABLES
    client_call,         \* one call of a client method: client, op, username, dir
    cpc,                 \* that call: calling, returned, raised
    call_out             \* what the call returned or raised

callvars == <<client_call, cpc, call_out>>

\* no single client call is under way
CallsIdle ==
    /\ client_call = None
    /\ cpc = "idle"
    /\ call_out = None

\* no wrapped function is being called
RetryIdle ==
    /\ retry_params = None
    /\ rpc = "idle"
    /\ last_exception = None
    /\ retry_out = None

VARIABLES
    now,                 \* time.time(), in ticks of 100 ms
    calls_per_minute,    \* RateLimiter.calls_per_minute
    last_call_time,      \* RateLimiter.last_call_time, in ticks
    lpc,                 \* the limiter's caller: working, calling
    waits                \* one record for each wait_if_needed() that returned

limitervars == <<now, calls_per_minute, last_call_time, lpc, waits>>

\* no rate limiter is in use
LimiterIdle ==
    /\ now = 0
    /\ calls_per_minute = 0
    /\ last_call_time = 0
    /\ lpc = "idle"
    /\ waits = <<>>

VARIABLES
    http_response,       \* an HTTP response: status_code, Retry-After header
    tpc,                 \* its handling: received, handled, decided
    raised_error,        \* what _handle_response_errors raised for it
    decision             \* what the retry wrapper does with that exception

taxvars == <<http_response, tpc, raised_error, decision>>

\* no response is being classified
TaxIdle ==
    /\ http_response = None
    /\ tpc = "idle"
    /\ raised_error = None
    /\ decision = None

VARIABLES
    operations,          \* the OperationStatus objects, in order of creation
    current_operation,   \* the global: an index into operations, 0 for None
    workers,             \* the _run threads, in order of start
    replies,             \* what each run_cleanup_operation call returned,
                         \* whether a thread was active when it was made, how
                         \* many threads it started and whether it replaced
                         \* the global
    flag_writes          \* the kinds of write made to an is_running field:
                         \* by which method, and whether operation_lock was held

dashvars == <<operations, current_operation, workers, replies, flag_writes>>

\* the dashboard has just been started
DashIdle ==
    /\ operations = <<>>
    /\ current_operation = 0
    /\ workers = <<>>
    /\ replies = <<>>
    /\ flag_writes = {}

VARIABLES
    duo_env,             \* whether DUO_IKEY, DUO_SKEY and DUO_HOST are all set
    duo_users,           \* the remote accounts the bypass endpoints look up
    bypass_audit,        \* the rows of table bypass_audit, in order of insertion
    sent,                \* the requests the dashboard's client sent to the remote
    handled              \* one record per request the bypass endpoints handled

bypassvars == <<duo_env, duo_users, bypass_audit, sent, handled>>

\* no bypass request has been made
BypassIdle ==
    /\ duo_env = FALSE
    /\ duo_users = <<>>
    /\ bypass_audit = <<>>
    /\ sent = <<>>
    /\ handled = <<>>

VARIABLES
    sign_in,             \* _sign_request: client, clock and arguments
    sign_pc,             \* signing: ready, signed, compared
    signed,              \* what _sign_request and _request made of sign_in
    sign_again,          \* the arguments of a second invocation
    signed_again         \* what the second invocation produced

signvars == <<sign_in, sign_pc, signed, sign_again, signed_again>>

\* nothing is being signed
SignIdle ==
    /\ sign_in = None
    /\ sign_pc = "idle"
    /\ signed = None
    /\ sign_again = None
    /\ signed_again = None

VARIABLES
    cl_in,               \* the argument of a classifier call
    cl_pc,               \* that call: called, returned, raised
    cl_out               \* what it returned

classvars == <<cl_in, cl_pc, cl_out>>

\* no classifier call is under way
ClassIdle ==
    /\ cl_in = None
    /\ cl_pc = "idle"
    /\ cl_out = None

VARIABLES
    threads,             \* the threads sharing one RateLimiter: position,
                         \* end of sleep, instant of return
    serialized,          \* whether the callers take a lock around wait_if_needed
    lock_owner           \* the thread holding that lock, 0 for none

racevars == <<threads, serialized, lock_owner>>

\* no thread shares a limiter
RaceIdle ==
    /\ threads = <<>>
    /\ serialized = FALSE
    /\ lock_owner = 0

VARIABLES
    api_body,            \* the body of a POST /api/run-cleanup request
    launch_pc,           \* that request: received, answered
    launched             \* the answer and the command line of the subprocess

launchvars == <<api_body, launch_pc, launched>>

\* no run-cleanup request has been received
LaunchIdle ==
    /\ api_body = None
    /\ launch_pc = "idle"
    /\ launched = None

extravars == <<racevars, launchvars>>

ExtraIdle == RaceIdle /\ LaunchIdle

morevars == <<bypassvars, signvars, classvars, extravars>>

MoreIdle == BypassIdle /\ SignIdle /\ ClassIdle /\ ExtraIdle

auxvars == <<limitervars, taxvars, dashvars, morevars>>

AuxIdle == LimiterIdle /\ TaxIdle /\ DashIdle /\ MoreIdle

basevars == <<mainvars, bulkvars, retryvars, callvars, limitervars, taxvars,
              dashvars>>

restvars == <<retryvars, callvars, auxvars>>

RestIdle == RetryIdle /\ CallsIdle /\ AuxIdle

vars == <<mainvars, bulkvars, restvars>>

----------------------------------------------------------------------------
(* Bounds of the model *)

\* longest username file, in lines
MaxFileLines == 2
\* most user ids handed to bulk_delete_users_safe
MaxUserIds == 2
\* largest max_retries given to exponential_backoff_retry
MaxRetriesArg == 3
\* most records the remote service returns in one page
ServerPageMax == 2
MaxWaitCalls == 3
MaxRunCalls == 3
MaxOutputLines == 1
\* run_cleanup_operation calls when the workers are followed to their end
MaxSlotCalls == 2
MaxRequests == 2
MaxNameLen == 8

----------------------------------------------------------------------------
(* Strings *)

Digits == {"0", "1", "2", "3", "4", "5", "6", "7", "8", "9"}

\* str.strip() removes these from both ends
Whitespace == {" ", "\t", "\n"}

RECURSIVE lstrip(_)
lstrip(s) ==
    IF s # <<>> /\ Head(s) \in Whitespace THEN lstrip(Tail(s)) ELSE s

RECURSIVE rstrip(_)
rstrip(s) ==
    IF s # <<>> /\ s[Len(s)] \in Whitespace
    THEN rstrip(SubSeq(s, 1, Len(s) - 1)) ELSE s

strip(s) == rstrip(lstrip(s))

\* username.split('@')[0]: the part before the first '@'
RECURSIVE split_at_0(_)
split_at_0(s) ==
    IF s = <<>> \/ Head(s) = "@" THEN <<>>
    ELSE <<Head(s)>> \o split_at_0(Tail(s))

\* re.match(r'^\d{6}$', s): six digits, then the end of the string or one
\* final newline (Python's $ also matches just before a trailing newline)
match_6_digits(s) ==
    /\ Len(s) \in {6, 7}
    /\ \A i \in 1..6 : s[i] \in Digits
    /\ Len(s) = 7 => s[7] = "\n"

is_student_account(username) == match_6_digits(split_at_0(username))

\* str.lower() on the operator's answers
lower(s) == [i \in 1..Len(s) |-> IF s[i] = "Y" THEN "y" ELSE s[i]]

----------------------------------------------------------------------------
(* Account records *)

\* truth value of dict.get(key): an absent key gives None, and None and the
\* empty string are false
Truthy(v) == v # None /\ v # ""

\* checks directory_key only
is_directory_managed_key_only(user) == Truthy(user.directory_key)

is_directory_managed(user) ==
    \/ Truthy(user.directory_key)
    \/ Truthy(user.external_id)
    \/ Truthy(user.last_directory_sync)

Account(username, user_id, dk, ext, lds) ==
    [username |-> username, user_id |-> user_id, directory_key |-> dk,
     external_id |-> ext, last_directory_sync |-> lds]

Student1 == <<"1", "2", "3", "4", "5", "6">>
Student2 == <<"2", "3", "4", "5", "6", "7", "@", "e">>
Staff1   == <<"j", "d", "o", "e">>

\* the states each remote account can be in at the start of a run
AccountStates ==
    <<{<<>>,
       <<Account(Student1, "u1", None, None, None)>>,
       <<Account(Student1, "u1", "sync1", None, None)>>},
      {<<>>,
       <<Account(Student2, "u2", "", "", "")>>,
       <<Account(Student2, "u2", None, "ext_123", None)>>},
      {<<>>,
       <<Account(Staff1, "u3", None, None, None)>>,
       <<Account(Staff1, "u3", "", None, "2024-01-01")>>}>>

Directories ==
    {a \o b \o c : a \in AccountStates[1], b \in AccountStates[2],
                   c \in AccountStates[3]}

\* lines a username file can hold
FileLines == {Student1, <<" ">> \o Staff1 \o <<"\n">>, Student2, <<" ">>}

SeqsUpTo(S, n) == UNION {[1..k -> S] : k \in 0..n}

ArgSets ==
    [dry_run : BOOLEAN, interactive : BOOLEAN,
     username_file : {None, "usernames.txt"}]

----------------------------------------------------------------------------
(* DuoAdminAPI *)

\* what requests.request can produce: a network-level exception, or an HTTP
\* response with a status code and an envelope
Responses ==
    {[net |-> TRUE,  status_code |-> 0,   stat |-> None],
     [net |-> FALSE, status_code |-> 200, stat |-> "OK"],
     [net |-> FALSE, status_code |-> 200, stat |-> "FAIL"],
     [net |-> FALSE, status_code |-> 401, stat |-> "FAIL"],
     [net |-> FALSE, status_code |-> 404, stat |-> "FAIL"],
     [net |-> FALSE, status_code |-> 500, stat |-> "FAIL"]}

\* response.raise_for_status()
raise_for_status(resp) == resp.status_code >= 400 /\ resp.status_code < 600

\* _request: returns the payload of an OK response; raises Exception on a
\* network exception, an HTTP error status or a non-OK envelope
_request(resp, payload) ==
    IF resp.net \/ raise_for_status(resp) \/ resp.stat # "OK"
    THEN [raised |-> TRUE, response |-> None]
    ELSE [raised |-> FALSE, response |-> payload]

\* the remote's answer to GET /users?username=...
RemoteUsersNamed(dir, username) ==
    SelectSeq(dir, LAMBDA u : u.username = username)

\* the remote's answer to GET /users?limit=..&offset=..
Min(a, b) == IF a < b THEN a ELSE b

\* the page starts one record after the offset
RemotePage_skipping_one(dir, lim, off) ==
    SubSeq(dir, off + 2, Min(Len(dir), off + 1 + Min(lim, ServerPageMax)))

RemotePage(dir, lim, off) ==
    SubSeq(dir, off + 1, Min(Len(dir), off + Min(lim, ServerPageMax)))

\* the remote after DELETE /users/{user_id}
RemoteDelete(dir, user_id) ==
    SelectSeq(dir, LAMBDA u : u.user_id # user_id)

\* users[0] without the emptiness test: IndexError on an empty list
get_user_by_username_unchecked(resp, dir, username) ==
    LET r == _request(resp, RemoteUsersNamed(dir, username))
    IN  IF r.raised \/ r.response = <<>> THEN [raised |-> TRUE, user |-> <<>>]
        ELSE [raised |-> FALSE, user |-> <<r.response[1]>>]

\* get_user_by_username: users[0] if users else None
get_user_by_username(resp, dir, username) ==
    LET r == _request(resp, RemoteUsersNamed(dir, username))
    IN  IF r.raised THEN [raised |-> TRUE, user |-> <<>>]
        ELSE [raised |-> FALSE,
              user |-> IF r.response # <<>> THEN <<r.response[1]>> ELSE <<>>]

\* returns True whatever the request did
delete_user_always_true(resp) == TRUE

\* delete_user: True when the request returned, False when it raised
delete_user(resp) == ~ _request(resp, <<>>).raised

\* web_dashboard.DuoAdminAPI._request: as _request, with a timeout
dashboard_request(resp, payload) ==
    IF resp.net \/ raise_for_status(resp) \/ resp.stat # "OK"
    THEN [raised |-> TRUE, response |-> None]
    ELSE [raised |-> FALSE, response |-> payload]

\* web_dashboard.DuoAdminAPI.get_user_by_username
dashboard_get_user_by_username(resp, dir, username) ==
    LET r == dashboard_request(resp, RemoteUsersNamed(dir, username))
    IN  IF r.raised THEN [raised |-> TRUE, user |-> <<>>]
        ELSE [raised |-> FALSE,
              user |-> IF r.response # <<>> THEN <<r.response[1]>> ELSE <<>>]

\* web_dashboard.DuoAdminAPI.update_user_status: True when the POST
\* returned, False when it raised
update_user_status(resp) == ~ dashboard_request(resp, <<>>).raised

\* a failed page request is taken for the empty page
list_users_swallowing(resp, dir, lim, off) ==
    IF _request(resp, <<>>).raised
    THEN [raised |-> FALSE, response |-> <<>>]
    ELSE _request(resp, RemotePage(dir, lim, off))

\* list_users(limit, offset)
list_users(resp, dir, lim, off) == _request(resp, RemotePage(dir, lim, off))

ListLimit == 100

----------------------------------------------------------------------------
(* main *)

Result(username, in_duo, managed, action, result) ==
    [username |-> username, in_duo |-> in_duo, managed_by_sync |-> managed,
     action |-> action, result |-> result]

NotFoundResult(username) ==
    Result(username, FALSE, "None", "None", "Not found in Duo")

\* the managed branch records in_duo False
ManagedResult_not_in_duo(username) ==
    Result(username, FALSE, "True", "Skip",
           "Managed by directory sync - remove from sync scope")

ManagedResult(username) ==
    Result(username, TRUE, "True", "Skip",
           "Managed by directory sync - remove from sync scope")

SkippedResult(username) ==
    Result(username, TRUE, "False", "Skip", "User skipped deletion")

DryRunResult(username) ==
    Result(username, TRUE, "False", "Would DELETE", "Dry run - no action taken")

\* the return value of api.delete_user is ignored
DeletionResult_ignoring_ok(username, ok) ==
    Result(username, TRUE, "False", "DELETED", "Successfully deleted")

\* the result recorded after api.delete_user returned ok
DeletionResult(username, ok) ==
    IF ok
    THEN Result(username, TRUE, "False", "DELETED", "Successfully deleted")
    ELSE Result(username, TRUE, "False", "ERROR", "Deletion failed")

\* any answer that begins with y or Y confirms
OperatorDeclines_first_letter(a, response) ==
    a.interactive /\ (response = <<>> \/ lower(response)[1] # "y")

\* if args.interactive: ... if response.lower() != 'y'
OperatorDeclines(a, response) == a.interactive /\ lower(response) # <<"y">>

\* the dry-run test is skipped once the operator has confirmed
DryRunBranch_unless_confirmed(a) == a.dry_run /\ ~a.interactive

\* if args.dry_run
DryRunBranch(a) == a.dry_run

\* answers the operator can type at the prompt
Answers == {<<"y">>, <<"Y">>, <<"n">>, <<"y", "e", "s">>, <<>>}

\* no cleanup run is under way
MainIdle ==
    /\ args = [dry_run |-> FALSE, interactive |-> FALSE, username_file |-> None]
    /\ file_lines = <<>>
    /\ directory = <<>>
    /\ pc = "idle"
    /\ offset = 0
    /\ all_users = <<>>
    /\ usernames_to_check = <<>>
    /\ idx = 1
    /\ results = <<>>
    /\ calls = <<>>
    /\ backup_file = <<>>
    /\ results_file = <<>>
    /\ exc = None

\* no bulk deletion is under way
BulkIdle ==
    /\ user_ids = <<>>
    /\ batch_size = 10
    /\ progress_callback = FALSE
    /\ bpc = "idle"
    /\ pos = 1
    /\ bulk_results = [success |-> <<>>, failed |-> <<>>]
    /\ deletes = <<>>
    /\ progress = <<>>
    /\ pauses = <<>>
    /\ attempt = 0
    /\ attempts = <<>>
    /\ sleeps = <<>>

\* neither program, no client call, no limiter and no cleanup run is active
BaseIdle ==
    /\ MainIdle
    /\ BulkIdle
    /\ RetryIdle
    /\ CallsIdle
    /\ LimiterIdle
    /\ TaxIdle
    /\ DashIdle

Init ==
    /\ BulkIdle
    /\ RestIdle
    /\ args \in ArgSets
    /\ file_lines \in IF args.username_file = None THEN {<<>>}
                      ELSE SeqsUpTo(FileLines, MaxFileLines)
    /\ directory \in Directories
    /\ pc = "collecting"
    /\ offset = 0
    /\ all_users = <<>>
    /\ usernames_to_check = <<>>
    /\ idx = 1
    /\ results = <<>>
    /\ calls = <<>>
    /\ backup_file = <<>>
    /\ results_file = <<>>
    /\ exc = None

\* only the lines that look like student usernames are kept
ReadUsernameFile_students_only(lines) ==
    LET stripped == [i \in 1..Len(lines) |-> strip(lines[i])]
    IN  SelectSeq(stripped, LAMBDA l : l # <<>> /\ is_student_account(l))

\* usernames_to_check = [line.strip() for line in f if line.strip()]
ReadUsernameFile(lines) ==
    LET stripped == [i \in 1..Len(lines) |-> strip(lines[i])]
    IN  SelectSeq(stripped, LAMBDA l : l # <<>>)

\* the filter over all_users
StudentUsernames(users) ==
    LET students == SelectSeq(users, LAMBDA u : is_student_account(u.username))
    IN  [i \in 1..Len(students) |-> students[i].username]

\* main, --username-file given: read the candidates from the file
LoadUsernameFile ==
    /\ pc = "collecting"
    /\ args.username_file # None
    /\ usernames_to_check' = ReadUsernameFile(file_lines)
    /\ pc' = "processing"
    /\ UNCHANGED <<args, file_lines, directory, offset, all_users, idx,
                   results, calls, backup_file, results_file, exc>>
    /\ UNCHANGED <<bulkvars, restvars>>

\* main, no --username-file: one pass of the while loop over list_users; the
\* empty page ends the loop, writes the backup and filters the candidates
FetchPage ==
    /\ pc = "collecting"
    /\ args.username_file = None
    /\ \E resp \in Responses :
        LET r == list_users(resp, directory, ListLimit, offset)
            call == [op |-> "list", offset |-> offset, resp |-> resp,
                     received |-> IF r.raised THEN 0 ELSE Len(r.response)]
        IN  IF r.raised
            THEN /\ pc' = "aborted"
                 /\ exc' = "Exception"
                 /\ calls' = Append(calls, call)
                 /\ UNCHANGED <<offset, all_users, usernames_to_check,
                                backup_file>>
            ELSE IF r.response = <<>>
            THEN /\ backup_file' = Append(backup_file, all_users)
                 /\ usernames_to_check' = StudentUsernames(all_users)
                 /\ pc' = "processing"
                 /\ calls' = calls \o <<call, [op |-> "backup"]>>
                 /\ UNCHANGED <<offset, all_users, exc>>
            ELSE /\ all_users' = all_users \o r.response
                 /\ offset' = offset + Len(r.response)
                 /\ calls' = calls \o <<call, [op |-> "sleep"]>>
                 /\ UNCHANGED <<pc, usernames_to_check, backup_file, exc>>
    /\ UNCHANGED <<args, file_lines, directory, idx, results, results_file>>
    /\ UNCHANGED <<bulkvars, restvars>>

\* main: one iteration of the for loop over usernames_to_check
ProcessUsername ==
    /\ pc = "processing"
    /\ idx <= Len(usernames_to_check)
    /\ LET username == usernames_to_check[idx] IN
       \E resp \in Responses :
        LET got == get_user_by_username(resp, directory, username)
            lookup == [op |-> "lookup", idx |-> idx, username |-> username,
                       resp |-> resp, user |-> got.user]
        IN  IF got.raised
            THEN \* the exception leaves main
                 /\ pc' = "aborted"
                 /\ exc' = "Exception"
                 /\ calls' = Append(calls, lookup)
                 /\ UNCHANGED <<directory, idx, results>>
            ELSE IF got.user = <<>>
            THEN /\ results' = Append(results, NotFoundResult(username))
                 /\ calls' = calls \o <<lookup, [op |-> "sleep"]>>
                 /\ idx' = idx + 1
                 /\ UNCHANGED <<directory, pc, exc>>
            ELSE IF is_directory_managed(got.user[1])
            THEN /\ results' = Append(results, ManagedResult(username))
                 /\ calls' = calls \o <<lookup, [op |-> "sleep"]>>
                 /\ idx' = idx + 1
                 /\ UNCHANGED <<directory, pc, exc>>
            ELSE \E response \in IF args.interactive THEN Answers ELSE {<<>>} :
                 LET prompt == IF args.interactive
                               THEN <<[op |-> "input", idx |-> idx,
                                       response |-> response]>>
                               ELSE <<>>
                 IN  IF OperatorDeclines(args, response)
                     THEN \* continue: no pause after a declined username
                          /\ results' = Append(results, SkippedResult(username))
                          /\ calls' = calls \o <<lookup>> \o prompt
                          /\ idx' = idx + 1
                          /\ UNCHANGED <<directory, pc, exc>>
                     ELSE IF DryRunBranch(args)
                     THEN /\ results' = Append(results, DryRunResult(username))
                          /\ calls' = calls \o <<lookup>> \o prompt
                                            \o <<[op |-> "sleep"]>>
                          /\ idx' = idx + 1
                          /\ UNCHANGED <<directory, pc, exc>>
                     ELSE \E dresp \in Responses :
                          LET user_id == got.user[1].user_id
                              ok == delete_user(dresp)
                              del == [op |-> "delete", idx |-> idx,
                                      user_id |-> user_id, resp |-> dresp,
                                      ok |-> ok]
                          IN  /\ directory' = IF ok
                                              THEN RemoteDelete(directory, user_id)
                                              ELSE directory
                              /\ results' = Append(results,
                                                   DeletionResult(username, ok))
                              /\ calls' = calls \o <<lookup>> \o prompt
                                                \o <<del, [op |-> "sleep"]>>
                              /\ idx' = idx + 1
                              /\ UNCHANGED <<pc, exc>>
    /\ UNCHANGED <<args, file_lines, offset, all_users, usernames_to_check,
                   backup_file, results_file>>
    /\ UNCHANGED <<bulkvars, restvars>>

\* the first line of the results CSV
CsvHeader == "Username,In_Duo,Managed_By_Sync,Action,Result"

\* str() of a bool inside an f-string
PyStr(b) == IF b THEN "True" ELSE "False"

\* the fields of the line written for one result
CsvRow(r) ==
    <<r.username, PyStr(r.in_duo), r.managed_by_sync, r.action, r.result>>

\* the declined usernames get no line
CsvFile_skipping_declined(rs) ==
    LET kept == SelectSeq(rs, LAMBDA r : r.result # "User skipped deletion")
    IN  [header |-> CsvHeader,
         rows |-> [i \in 1..Len(kept) |-> CsvRow(kept[i])]]

\* what is written to results_file: the header, then one line per result
CsvFile(rs) ==
    [header |-> CsvHeader, rows |-> [i \in 1..Len(rs) |-> CsvRow(rs[i])]]

\* sum(1 for r in results if ...): the numbers of the printed summary
CountWhere(rs, P(_)) == Cardinality({i \in DOMAIN rs : P(rs[i])})

Summary(rs) ==
    [total |-> Len(rs),
     not_in_duo |-> CountWhere(rs, LAMBDA r : ~ r.in_duo),
     managed |-> CountWhere(rs, LAMBDA r : r.managed_by_sync = "True"),
     deleted |-> CountWhere(rs, LAMBDA r : r.action = "DELETED"),
     would_delete |-> CountWhere(rs, LAMBDA r : r.action = "Would DELETE"),
     errors |-> CountWhere(rs, LAMBDA r : r.action = "ERROR")]

\* main: after the loop, write the results CSV and the summary
WriteResults ==
    /\ pc = "processing"
    /\ idx > Len(usernames_to_check)
    /\ results_file' = Append(results_file, CsvFile(results))
    /\ calls' = Append(calls, [op |-> "csv"])
    /\ pc' = "done"
    /\ UNCHANGED <<args, file_lines, directory, offset, all_users,
                   usernames_to_check, idx, results, backup_file, exc>>
    /\ UNCHANGED <<bulkvars, restvars>>

Next ==
    \/ LoadUsernameFile
    \/ FetchPage
    \/ ProcessUsername
    \/ WriteResults

Spec == Init /\ [][Next]_vars

\* main runs to its end: no step of it is postponed for ever
SpecFair == Init /\ [][Next]_vars /\ WF_vars(Next)

----------------------------------------------------------------------------
(* exponential_backoff_retry, as applied to _make_request *)

max_retries == 3
\* delays are in milliseconds
base_delay == 1000
max_delay == 60000
exponential_base == 2

\* 0.5 + random.random(), in percent: a value in [50, 150)
JitterPercents == {50, 149}

RECURSIVE Pow(_, _)
Pow(b, n) == IF n = 0 THEN 1 ELSE b * Pow(b, n - 1)

\* the cap is not applied
retry_delay_uncapped(p, n, jitter_percent) ==
    (p.base_delay * Pow(p.exponential_base, n) * jitter_percent) \div 100

\* delay = min(base_delay * (exponential_base ** attempt), max_delay),
\* then delay * (0.5 + random.random()) when jitter is set
retry_delay(p, n, jitter_percent) ==
    (Min(p.base_delay * Pow(p.exponential_base, n), p.max_delay)
        * jitter_percent) \div 100

\* the delay under the arguments _make_request is decorated with
backoff_delay(n, jitter_percent) ==
    retry_delay([base_delay |-> base_delay, max_delay |-> max_delay,
                 exponential_base |-> exponential_base], n, jitter_percent)

\* the exceptions the wrapper's first except clause catches and retries
RetriedErrors ==
    {"DuoRateLimitError", "DuoServerError", "Timeout", "ConnectionError"}

\* every exception is retried
wrapper_step_retry_all(error, n, retries) ==
    IF error = None THEN "return"
    ELSE IF n = retries THEN "raise last_exception" ELSE "sleep"

\* the final attempt sleeps too and one more attempt is made
wrapper_step_one_more(error, n, retries) ==
    IF error = None THEN "return"
    ELSE IF error \in RetriedErrors
    THEN IF n = retries + 1 THEN "raise last_exception" ELSE "sleep"
    ELSE "raise"

\* what one pass of the wrapper's for loop does with the outcome of
\* func(*args, **kwargs) on attempt n: return its value, sleep and go round
\* again, break and raise last_exception, or let the exception leave
wrapper_step(error, n, retries) ==
    IF error = None THEN "return"
    ELSE IF error \in RetriedErrors
    THEN IF n = retries THEN "raise last_exception" ELSE "sleep"
    ELSE "raise"

\* what a wrapped function can do when called: return (None) or raise
FuncOutcomes ==
    {None, "DuoRateLimitError", "DuoServerError", "Timeout", "ConnectionError",
     "DuoAuthenticationError", "DuoNotFoundError", "DuoAPIError", "ValueError"}

\* arguments the decorator is given; delays are in milliseconds
RetryParams ==
    [max_retries : 0..MaxRetriesArg, base_delay : {1000, 40000},
     max_delay : {max_delay}, exponential_base : {exponential_base},
     jitter : BOOLEAN]

InitRetry ==
    /\ MainIdle
    /\ BulkIdle
    /\ CallsIdle
    /\ AuxIdle
    /\ retry_params \in RetryParams
    /\ rpc = "calling"
    /\ last_exception = None
    /\ retry_out = None

\* wrapper: one pass of the for loop, calling func once
RetryAttempt ==
    /\ rpc = "calling"
    /\ \E error \in FuncOutcomes :
        LET call == [error |-> error, attempt |-> attempt]
            step == wrapper_step(error, attempt, retry_params.max_retries)
        IN  /\ attempts' = Append(attempts, call)
            /\ IF step = "return"
               THEN /\ rpc' = "returned"
                    /\ retry_out' = [raised |-> FALSE, attempt |-> attempt]
                    /\ UNCHANGED <<attempt, sleeps, last_exception>>
               ELSE IF step = "sleep"
               THEN \E j \in IF retry_params.jitter THEN JitterPercents
                              ELSE {100} :
                    /\ last_exception' = call
                    /\ sleeps' = Append(sleeps,
                                        retry_delay(retry_params, attempt, j))
                    /\ attempt' = attempt + 1
                    /\ UNCHANGED <<rpc, retry_out>>
               ELSE IF step = "raise last_exception"
               THEN /\ last_exception' = call
                    /\ rpc' = "raised"
                    /\ retry_out' = [raised |-> TRUE, error |-> call.error,
                                     attempt |-> call.attempt]
                    /\ UNCHANGED <<attempt, sleeps>>
               ELSE /\ rpc' = "raised"
                    /\ retry_out' = [raised |-> TRUE, error |-> error,
                                     attempt |-> attempt]
                    /\ UNCHANGED <<attempt, sleeps, last_exception>>
    /\ UNCHANGED <<retry_params, user_ids, batch_size, progress_callback, bpc,
                   pos, bulk_results, deletes, progress, pauses>>
    /\ UNCHANGED <<mainvars, callvars, auxvars>>

NextRetry == RetryAttempt

SpecRetry == InitRetry /\ [][NextRetry]_vars

----------------------------------------------------------------------------
(* EnhancedDuoAdminAPI *)

\* what requests.request can produce for the retrying client: one of the
\* requests exceptions, or an HTTP response
StatusCodes == {200, 400, 401, 403, 404, 429, 500}

EnhancedResponses ==
    {[raises |-> e, status_code |-> 0, stat |-> None] :
        e \in {"Timeout", "ConnectionError", "RequestException"}}
    \cup {[raises |-> None, status_code |-> 200, stat |-> st] :
            st \in {"OK", "FAIL"}}
    \cup {[raises |-> None, status_code |-> c, stat |-> "FAIL"] :
            c \in StatusCodes \ {200}}

\* 403 is left to the generic branch
_handle_response_errors_403_generic(status_code) ==
    IF status_code = 401 THEN "DuoAuthenticationError"
    ELSE IF status_code = 404 THEN "DuoNotFoundError"
    ELSE IF status_code = 429 THEN "DuoRateLimitError"
    ELSE IF status_code >= 500 THEN "DuoServerError"
    ELSE IF status_code >= 400 THEN "DuoAPIError"
    ELSE None

\* _handle_response_errors: the exception raised for a status code, or None
_handle_response_errors(status_code) ==
    IF status_code = 401 THEN "DuoAuthenticationError"
    ELSE IF status_code = 403 THEN "DuoAuthenticationError"
    ELSE IF status_code = 404 THEN "DuoNotFoundError"
    ELSE IF status_code = 429 THEN "DuoRateLimitError"
    ELSE IF status_code >= 500 THEN "DuoServerError"
    ELSE IF status_code >= 400 THEN "DuoAPIError"
    ELSE None

\* the envelope check is left out
_make_request_no_envelope(resp) ==
    IF resp.raises \in {"Timeout", "ConnectionError", "RequestException"}
    THEN "DuoAPIError"
    ELSE IF _handle_response_errors(resp.status_code) # None
    THEN _handle_response_errors(resp.status_code)
    ELSE None

\* the body of _make_request: the exception that leaves it, or None when it
\* returns the payload; the requests exceptions leave it as DuoAPIError
_make_request(resp) ==
    IF resp.raises \in {"Timeout", "ConnectionError", "RequestException"}
    THEN "DuoAPIError"
    ELSE IF _handle_response_errors(resp.status_code) # None
    THEN _handle_response_errors(resp.status_code)
    ELSE IF raise_for_status(resp) THEN "DuoAPIError"
    ELSE IF resp.stat # "OK" THEN "DuoAPIError"
    ELSE None

AllUserIds == <<"u1", "u2", "u3", "u4">>

\* the batch sizes callers pass; 10 is the default
BatchSizes == {1, 2, 10}

\* the lists callers pass: distinct ids, or the same id twice
UserIdLists ==
    {SubSeq(AllUserIds, 1, n) : n \in 0..MaxUserIds} \cup {<<"u1", "u1">>}

InitBulk ==
    /\ MainIdle
    /\ RestIdle
    /\ user_ids \in UserIdLists
    /\ batch_size \in BatchSizes
    /\ progress_callback \in BOOLEAN
    /\ bpc = "running"
    /\ pos = 1
    /\ bulk_results = [success |-> <<>>, failed |-> <<>>]
    /\ deletes = <<>>
    /\ progress = <<>>
    /\ pauses = <<>>
    /\ attempt = 0
    /\ attempts = <<>>
    /\ sleeps = <<>>

\* the processed count is taken before the id is appended to its list
FinishDelete_counting_before_append(ok, tried) ==
    LET user_id == user_ids[pos]
        total == Len(user_ids)
        i == ((pos - 1) \div batch_size) * batch_size
        res == IF ok
               THEN [bulk_results EXCEPT !.success = Append(@, user_id)]
               ELSE [bulk_results EXCEPT !.failed = Append(@, user_id)]
        batch_ends == pos = Min(i + batch_size, total)
    IN  /\ bulk_results' = res
        /\ deletes' = Append(deletes,
                [user_id |-> user_id, ok |-> ok, calls |-> Len(tried),
                 last |-> tried[Len(tried)]])
        /\ progress' = IF progress_callback
                       THEN Append(progress,
                                <<Len(bulk_results.success)
                                  + Len(bulk_results.failed), total>>)
                       ELSE progress
        /\ pauses' = IF batch_ends /\ i + batch_size < total
                     THEN Append(pauses, pos) ELSE pauses
        /\ pos' = pos + 1
        /\ attempt' = 0
        /\ attempts' = <<>>
        /\ sleeps' = <<>>

\* delete_user_safe returned ok for user_ids[pos]: the rest of the loop body
\* of bulk_delete_users_safe, and the pause after the last id of a batch
FinishDelete(ok, tried) ==
    LET user_id == user_ids[pos]
        total == Len(user_ids)
        i == ((pos - 1) \div batch_size) * batch_size
        res == IF ok
               THEN [bulk_results EXCEPT !.success = Append(@, user_id)]
               ELSE [bulk_results EXCEPT !.failed = Append(@, user_id)]
        batch_ends == pos = Min(i + batch_size, total)
    IN  /\ bulk_results' = res
        /\ deletes' = Append(deletes,
                [user_id |-> user_id, ok |-> ok, calls |-> Len(tried),
                 last |-> tried[Len(tried)]])
        /\ progress' = IF progress_callback
                       THEN Append(progress,
                                <<Len(res.success) + Len(res.failed), total>>)
                       ELSE progress
        /\ pauses' = IF batch_ends /\ i + batch_size < total
                     THEN Append(pauses, pos) ELSE pauses
        /\ pos' = pos + 1
        /\ attempt' = 0
        /\ attempts' = <<>>
        /\ sleeps' = <<>>

\* one attempt of the retried _make_request('DELETE', ...) made by
\* delete_user_safe for user_ids[pos]
DeleteAttempt ==
    /\ bpc = "running"
    /\ pos <= Len(user_ids)
    /\ \E resp \in EnhancedResponses :
        LET err == _make_request(resp)
            tried == Append(attempts,
                        [raises |-> resp.raises, status_code |-> resp.status_code,
                         stat |-> resp.stat, error |-> err])
            step == wrapper_step(err, attempt, max_retries)
        IN  IF step = "return"
            THEN FinishDelete(TRUE, tried)
            ELSE IF step = "sleep"
            THEN \E j \in JitterPercents :
                 /\ sleeps' = Append(sleeps, backoff_delay(attempt, j))
                 /\ attempt' = attempt + 1
                 /\ attempts' = tried
                 /\ UNCHANGED <<bulk_results, deletes, progress, pauses, pos>>
            ELSE \* the wrapper raises; delete_user_safe returns False
                 FinishDelete(FALSE, tried)
    /\ UNCHANGED <<user_ids, batch_size, progress_callback, bpc>>
    /\ UNCHANGED <<mainvars, restvars>>

\* bulk_delete_users_safe: return results
BulkReturn ==
    /\ bpc = "running"
    /\ pos > Len(user_ids)
    /\ bpc' = "returned"
    /\ UNCHANGED <<user_ids, batch_size, progress_callback, pos, bulk_results,
                   deletes, progress, pauses, attempt, attempts, sleeps>>
    /\ UNCHANGED <<mainvars, restvars>>

NextBulk ==
    \/ DeleteAttempt
    \/ BulkReturn

SpecBulk == InitBulk /\ [][NextBulk]_vars

\* either program runs
SpecClients == (Init \/ InitBulk) /\ [][Next \/ NextBulk]_vars

----------------------------------------------------------------------------
(* RateLimiter *)

\* the clock counts ticks of 100 ms
TicksPerMinute == 600

\* the rates callers configure; 50 is the default
CallRates == {50, 200, 600}

\* min_interval = 60.0 / calls_per_minute, in ticks
min_interval_of(cpm) == TicksPerMinute \div cpm

\* time.time() when the limiter is built: far more than a minute after the
\* epoch
StartTime == 1000

\* how much longer than asked time.sleep() may take, and how long the
\* statements between two readings of the clock may take
Overruns == {0, 1}

\* last_call_time is stamped with the reading taken before the sleep
wait_if_needed_stamp_before_sleep(last, min_interval, current_time, overrun) ==
    LET elapsed == current_time - last
        sleep_time == IF elapsed < min_interval THEN min_interval - elapsed
                      ELSE 0
    IN  [slept |-> elapsed < min_interval,
         sleep_time |-> sleep_time,
         last_call_time |-> current_time,
         returned |-> current_time + sleep_time + overrun]

\* the sleep is computed but never taken
wait_if_needed_without_sleep(last, min_interval, current_time, overrun) ==
    LET elapsed == current_time - last
        sleep_time == IF elapsed < min_interval THEN min_interval - elapsed
                      ELSE 0
    IN  [slept |-> elapsed < min_interval,
         sleep_time |-> sleep_time,
         last_call_time |-> current_time + overrun,
         returned |-> current_time + overrun]

\* wait_if_needed: whether it sleeps and for how long, the value it leaves
\* in last_call_time and the instant it returns
wait_if_needed(last, min_interval, current_time, overrun) ==
    LET elapsed == current_time - last
        sleep_time == IF elapsed < min_interval THEN min_interval - elapsed
                      ELSE 0
    IN  [slept |-> elapsed < min_interval,
         sleep_time |-> sleep_time,
         last_call_time |-> current_time + sleep_time + overrun,
         returned |-> current_time + sleep_time + overrun]

InitLimiter ==
    /\ MainIdle
    /\ BulkIdle
    /\ RetryIdle
    /\ CallsIdle
    /\ TaxIdle
    /\ DashIdle
    /\ MoreIdle
    /\ now = StartTime
    /\ calls_per_minute \in CallRates
    /\ last_call_time = 0
    /\ lpc = "working"
    /\ waits = <<>>

\* the time the sequential caller spends between two calls
WorkTimes(min_interval) ==
    {0, min_interval - 1, min_interval, min_interval + 5}

CallerWorks ==
    /\ lpc = "working"
    /\ Len(waits) < MaxWaitCalls
    /\ \E d \in WorkTimes(min_interval_of(calls_per_minute)) :
        now' = now + d
    /\ lpc' = "calling"
    /\ UNCHANGED <<calls_per_minute, last_call_time, waits>>
    /\ UNCHANGED <<mainvars, bulkvars, retryvars, callvars, taxvars, dashvars,
                   morevars>>

WaitIfNeeded ==
    /\ lpc = "calling"
    /\ \E overrun \in Overruns :
        LET min_interval == min_interval_of(calls_per_minute)
            w == wait_if_needed(last_call_time, min_interval, now, overrun)
        IN  /\ last_call_time' = w.last_call_time
            /\ now' = w.returned
            /\ waits' = Append(waits,
                    [called |-> now, before |-> last_call_time,
                     slept |-> w.slept, sleep_time |-> w.sleep_time,
                     returned |-> w.returned])
    /\ lpc' = "working"
    /\ UNCHANGED calls_per_minute
    /\ UNCHANGED <<mainvars, bulkvars, retryvars, callvars, taxvars, dashvars,
                   morevars>>

NextLimiter ==
    \/ CallerWorks
    \/ WaitIfNeeded

SpecLimiter == InitLimiter /\ [][NextLimiter]_vars

----------------------------------------------------------------------------
(* RateLimiter shared by two threads *)

\* the two threads that call wait_if_needed() on one RateLimiter
Threads == {1, 2}

\* a thread that has not called yet
ThreadOutside ==
    [pc |-> "outside", read_at |-> 0, wake |-> 0, returned |-> 0,
     writes_seen |-> 0]

\* how many threads have written last_call_time
WritesDone == Cardinality({u \in Threads : threads[u].pc = "returned"})

InitRace ==
    /\ MainIdle
    /\ BulkIdle
    /\ RetryIdle
    /\ CallsIdle
    /\ TaxIdle
    /\ DashIdle
    /\ BypassIdle
    /\ SignIdle
    /\ ClassIdle
    /\ LaunchIdle
    /\ now = StartTime
    /\ calls_per_minute \in CallRates
    /\ last_call_time \in {0, StartTime}
    /\ lpc = "shared"
    /\ waits = <<>>
    /\ threads = [t \in Threads |-> ThreadOutside]
    /\ serialized \in BOOLEAN
    /\ lock_owner = 0

\* wait_if_needed up to the end of its sleep: current_time = time.time(),
\* elapsed = current_time - self.last_call_time, time.sleep(sleep_time).
\* A caller that serializes access takes the lock first.
ThreadReads ==
    /\ \E t \in Threads :
        /\ threads[t].pc = "outside"
        /\ serialized => lock_owner = 0
        /\ \E d \in WorkTimes(min_interval_of(calls_per_minute)) :
           \E overrun \in Overruns :
            LET min_interval == min_interval_of(calls_per_minute)
                current_time == now + d
                w == wait_if_needed(last_call_time, min_interval,
                                    current_time, overrun)
            IN  /\ now' = current_time
                /\ threads' = [threads EXCEPT ![t] =
                        [pc |-> "sleeping", read_at |-> current_time,
                         wake |-> w.returned, returned |-> 0,
                         writes_seen |-> WritesDone]]
        /\ lock_owner' = IF serialized THEN t ELSE lock_owner
    /\ UNCHANGED <<calls_per_minute, last_call_time, lpc, waits, serialized>>
    /\ UNCHANGED <<mainvars, bulkvars, retryvars, callvars, taxvars, dashvars,
                   bypassvars, signvars, classvars, launchvars>>

\* the last statement of wait_if_needed: self.last_call_time = time.time(),
\* read when the thread runs again after its sleep
ThreadStamps ==
    /\ \E t \in Threads :
        /\ threads[t].pc = "sleeping"
        /\ now' = IF now < threads[t].wake THEN threads[t].wake ELSE now
        /\ last_call_time' = now'
        /\ threads' = [threads EXCEPT ![t].pc = "returned",
                                      ![t].returned = now']
        /\ waits' = Append(waits,
                [called |-> threads[t].read_at, before |-> last_call_time,
                 slept |-> threads[t].wake > threads[t].read_at,
                 sleep_time |-> threads[t].wake - threads[t].read_at,
                 returned |-> now'])
    /\ lock_owner' = 0
    /\ UNCHANGED <<calls_per_minute, lpc, serialized>>
    /\ UNCHANGED <<mainvars, bulkvars, retryvars, callvars, taxvars, dashvars,
                   bypassvars, signvars, classvars, launchvars>>

NextRace ==
    \/ ThreadReads
    \/ ThreadStamps

SpecRace == InitRace /\ [][NextRace]_vars

----------------------------------------------------------------------------
(* The HTTP error taxonomy *)

\* the status codes a server can send
HttpStatusCodes == 100..599

\* the Retry-After header of a response; None when there is none
RetryAfterHeaders == {None, "1", "30", "120"}

HttpResponses == [status_code : HttpStatusCodes, retry_after : RetryAfterHeaders]

\* response.headers.get('Retry-After', '60')
retry_after_of(resp) ==
    IF resp.retry_after = None THEN "60" ELSE resp.retry_after

\* the message of the exception _handle_response_errors raises, in parts
error_message(resp) ==
    IF resp.status_code \in {401, 403, 404} THEN <<>>
    ELSE IF resp.status_code = 429
    THEN <<"Rate limit exceeded. Retry after ", retry_after_of(resp),
           " seconds.">>
    ELSE IF resp.status_code >= 400 THEN <<resp.status_code>>
    ELSE <<>>

InitTaxonomy ==
    /\ MainIdle
    /\ BulkIdle
    /\ RetryIdle
    /\ CallsIdle
    /\ LimiterIdle
    /\ DashIdle
    /\ MoreIdle
    /\ http_response \in HttpResponses
    /\ tpc = "received"
    /\ raised_error = None
    /\ decision = None

\* self._handle_response_errors(response)
HandleResponseErrors ==
    /\ tpc = "received"
    /\ raised_error' = [class |-> _handle_response_errors(http_response.status_code),
                        message |-> error_message(http_response)]
    /\ tpc' = "handled"
    /\ UNCHANGED <<http_response, decision>>
    /\ UNCHANGED <<mainvars, bulkvars, retryvars, callvars, limitervars,
                   dashvars, morevars>>

\* the retry wrapper meets the exception on its n-th attempt
WrapperDecides ==
    /\ tpc = "handled"
    /\ \E n \in 0..max_retries :
        decision' = [attempt |-> n,
                     step |-> wrapper_step(raised_error.class, n, max_retries)]
    /\ tpc' = "decided"
    /\ UNCHANGED <<http_response, raised_error>>
    /\ UNCHANGED <<mainvars, bulkvars, retryvars, callvars, limitervars,
                   dashvars, morevars>>

NextTaxonomy ==
    \/ HandleResponseErrors
    \/ WrapperDecides

SpecTaxonomy == InitTaxonomy /\ [][NextTaxonomy]_vars

----------------------------------------------------------------------------
(* Single calls of the three clients *)

\* get_user_safe, given the exception that left the retried _make_request
\* (None when it returned) and the list it returned
get_user_safe(err, users) ==
    IF err = None
    THEN [raised |-> FALSE, value |-> IF users # <<>> THEN <<users[1]>> ELSE <<>>]
    ELSE IF err = "DuoNotFoundError"
    THEN [raised |-> FALSE, value |-> <<>>]
    ELSE [raised |-> TRUE, value |-> err]

\* delete_user_safe, given the exception that left the retried _make_request
delete_user_safe(err) == [raised |-> FALSE, value |-> err = None]

CallDirectories ==
    {<<>>,
     <<Account(Student1, "u1", None, None, None)>>,
     <<Account(Staff1, "u3", "", None, "2024-01-01"),
       Account(Student1, "u1", "sync1", None, None)>>}

ClientCalls ==
    [client : {"cleanup"}, op : {"get_user_by_username", "delete_user"},
     username : {Student1}, dir : CallDirectories]
    \cup [client : {"dashboard"},
          op : {"get_user_by_username", "update_user_status"},
          username : {Student1}, dir : CallDirectories]
    \cup [client : {"enhanced"}, op : {"get_user_safe", "delete_user_safe"},
          username : {Student1}, dir : CallDirectories]

InitCalls ==
    /\ MainIdle
    /\ BulkIdle
    /\ RetryIdle
    /\ AuxIdle
    /\ client_call \in ClientCalls
    /\ cpc = "calling"
    /\ call_out = None

\* a call of a method of one of the two DuoAdminAPI classes: one request
BasicCall ==
    /\ cpc = "calling"
    /\ client_call.client \in {"cleanup", "dashboard"}
    /\ \E resp \in Responses :
        LET c == client_call
            out == IF c.op = "delete_user"
                   THEN [raised |-> FALSE, value |-> delete_user(resp)]
                   ELSE IF c.op = "update_user_status"
                   THEN [raised |-> FALSE, value |-> update_user_status(resp)]
                   ELSE LET got == IF c.client = "cleanup"
                                   THEN get_user_by_username(resp, c.dir,
                                                             c.username)
                                   ELSE dashboard_get_user_by_username(
                                            resp, c.dir, c.username)
                        IN  IF got.raised
                            THEN [raised |-> TRUE, value |-> "Exception"]
                            ELSE [raised |-> FALSE, value |-> got.user]
        IN  /\ attempts' = Append(attempts,
                    [raises |-> IF resp.net THEN "RequestException" ELSE None,
                     status_code |-> resp.status_code, stat |-> resp.stat,
                     error |-> IF (IF c.client = "cleanup"
                                   THEN _request(resp, <<>>).raised
                                   ELSE dashboard_request(resp, <<>>).raised)
                               THEN "Exception" ELSE None])
            /\ call_out' = out
            /\ cpc' = IF out.raised THEN "raised" ELSE "returned"
    /\ UNCHANGED <<client_call, attempt, sleeps>>
    /\ UNCHANGED <<user_ids, batch_size, progress_callback, bpc, pos,
                   bulk_results, deletes, progress, pauses>>
    /\ UNCHANGED <<mainvars, retryvars, auxvars>>

\* a call of get_user_safe or delete_user_safe: one attempt of the retried
\* _make_request, and the method's own handling once the wrapper is left
EnhancedAttempt ==
    /\ cpc = "calling"
    /\ client_call.client = "enhanced"
    /\ \E resp \in EnhancedResponses :
        LET c == client_call
            err == _make_request(resp)
            step == wrapper_step(err, attempt, max_retries)
            out == IF c.op = "delete_user_safe" THEN delete_user_safe(err)
                   ELSE get_user_safe(err, RemoteUsersNamed(c.dir, c.username))
        IN  /\ attempts' = Append(attempts,
                    [raises |-> resp.raises, status_code |-> resp.status_code,
                     stat |-> resp.stat, error |-> err])
            /\ IF step = "sleep"
               THEN \E j \in JitterPercents :
                    /\ sleeps' = Append(sleeps, backoff_delay(attempt, j))
                    /\ attempt' = attempt + 1
                    /\ UNCHANGED <<cpc, call_out>>
               ELSE /\ call_out' = out
                    /\ cpc' = IF out.raised THEN "raised" ELSE "returned"
                    /\ UNCHANGED <<attempt, sleeps>>
    /\ UNCHANGED client_call
    /\ UNCHANGED <<user_ids, batch_size, progress_callback, bpc, pos,
                   bulk_results, deletes, progress, pauses>>
    /\ UNCHANGED <<mainvars, retryvars, auxvars>>

NextCalls ==
    \/ BasicCall
    \/ EnhancedAttempt

SpecCalls == InitCalls /\ [][NextCalls]_vars

----------------------------------------------------------------------------
(* EnhancedDuoAdminAPI._make_request with its rate limiter and its clock *)

\* the limiter is passed once per request, before the first attempt only
passes_limiter_first_attempt_only(n) == n = 0

\* _make_request: wait_if_needed() is the first statement of the decorated
\* body, so attempt n of a request passes the limiter whatever n is
passes_limiter(n) == TRUE

\* a delay in milliseconds, in ticks of the clock
TicksOf(ms) == ms \div 100

\* last_call_time when a request begins: never stamped, or stamped by an
\* earlier request of the same client
EarlierStamps == {0, StartTime}

\* the answers an attempt can get: success, the two retried errors and one
\* error that is not retried
GatedResponses ==
    {r \in EnhancedResponses :
        /\ r.raises = None
        /\ r.status_code \in {200, 401, 429, 500}
        /\ r.stat = (IF r.status_code = 200 THEN "OK" ELSE "FAIL")}

InitGated ==
    /\ MainIdle
    /\ BulkIdle
    /\ RetryIdle
    /\ TaxIdle
    /\ DashIdle
    /\ MoreIdle
    /\ now = StartTime
    /\ calls_per_minute \in CallRates
    /\ last_call_time \in EarlierStamps
    /\ lpc = "calling"
    /\ waits = <<>>
    /\ client_call \in {c \in ClientCalls :
                            c.client = "enhanced" /\ Len(c.dir) = 1}
    /\ cpc = "calling"
    /\ call_out = None

\* one attempt of the retried _make_request: the limiter, the HTTP request,
\* and what the wrapper does with the outcome
GatedAttempt ==
    /\ cpc = "calling"
    /\ \E resp \in GatedResponses, overrun \in Overruns, took \in Overruns :
        LET c == client_call
            min_interval == min_interval_of(calls_per_minute)
            w == wait_if_needed(last_call_time, min_interval, now, overrun)
            gated == passes_limiter(attempt)
            sent_at == IF gated THEN w.returned ELSE now
            err == _make_request(resp)
            step == wrapper_step(err, attempt, max_retries)
            out == IF c.op = "delete_user_safe" THEN delete_user_safe(err)
                   ELSE get_user_safe(err, RemoteUsersNamed(c.dir, c.username))
        IN  /\ last_call_time' = IF gated THEN w.last_call_time
                                 ELSE last_call_time
            /\ waits' = IF gated
                        THEN Append(waits,
                                [called |-> now, before |-> last_call_time,
                                 slept |-> w.slept, sleep_time |-> w.sleep_time,
                                 returned |-> w.returned])
                        ELSE waits
            /\ attempts' = Append(attempts,
                    [raises |-> resp.raises, status_code |-> resp.status_code,
                     stat |-> resp.stat, error |-> err, sent |-> sent_at])
            /\ IF step = "sleep"
               THEN \E j \in JitterPercents :
                    /\ sleeps' = Append(sleeps, backoff_delay(attempt, j))
                    /\ now' = sent_at + took + TicksOf(backoff_delay(attempt, j))
                    /\ attempt' = attempt + 1
                    /\ UNCHANGED <<cpc, call_out, lpc>>
               ELSE /\ call_out' = out
                    /\ cpc' = IF out.raised THEN "raised" ELSE "returned"
                    /\ lpc' = "working"
                    /\ now' = sent_at + took
                    /\ UNCHANGED <<attempt, sleeps>>
    /\ UNCHANGED <<client_call, calls_per_minute>>
    /\ UNCHANGED <<user_ids, batch_size, progress_callback, bpc, pos,
                   bulk_results, deletes, progress, pauses>>
    /\ UNCHANGED <<mainvars, retryvars, taxvars, dashvars, morevars>>

NextGated == GatedAttempt

SpecGated == InitGated /\ [][NextGated]_vars

----------------------------------------------------------------------------
(* web_dashboard: run_cleanup_operation and its worker thread *)

\* the lines the subprocess prints, by what the monitor loop makes of them
OutputLines == {"Processing:", "DELETED", "ERROR", "other"}

\* the lines _run appends to the log
LogMessages ==
    OutputLines \cup {"Starting cleanup operation",
                      "Operation completed successfully", "Operation failed",
                      "Exception occurred"}

\* OperationStatus.__init__ followed by start("duo_cleanup", dry_run); logs
\* holds how many times each line was appended, not the order of the lines
OperationStatus(dry_run) ==
    [is_running |-> TRUE, operation_type |-> "duo_cleanup",
     dry_run |-> dry_run,
     progress |-> [processed |-> 0, deleted |-> 0, errors |-> 0],
     logs |-> [m \in LogMessages |-> 0], error |-> None]

\* OperationStatus.add_log on the object the global names
add_log(ops, message) ==
    [ops EXCEPT ![current_operation].logs[message] = @ + 1]

\* finish() records the error and leaves is_running set
finish_keeping_flag(ops, error) ==
    [ops EXCEPT ![current_operation].error = error]

\* OperationStatus.finish on the object the global names
finish(ops, error) ==
    [ops EXCEPT ![current_operation].is_running = FALSE,
                ![current_operation].error = error]

\* whether the statements of a function run inside 'with operation_lock':
\* the check and start() of run_cleanup_operation do, no statement of _run does
holds_operation_lock(function) == function = "run_cleanup_operation"

\* a write of is_running made by OperationStatus.start or .finish
FlagWrite(method, function) ==
    [method |-> method, holds_lock |-> holds_operation_lock(function)]

RECURSIVE LinesRead(_)
\* the lines of output the first n threads have read
LinesRead(n) == IF n = 0 THEN 0 ELSE workers[n].lines + LinesRead(n - 1)

\* the threads that have not yet called finish()
ActiveWorkers == {w \in DOMAIN workers : ~ workers[w].finished}

InitDash ==
    /\ MainIdle
    /\ BulkIdle
    /\ RetryIdle
    /\ CallsIdle
    /\ LimiterIdle
    /\ TaxIdle
    /\ MoreIdle
    /\ operations = <<>>
    /\ current_operation = 0
    /\ workers = <<>>
    /\ replies = <<>>
    /\ flag_writes = {}

DashUnchanged ==
    UNCHANGED <<mainvars, bulkvars, retryvars, callvars, limitervars, taxvars,
                morevars>>

\* run_cleanup_operation(dry_run): the check and the replacement of the
\* global under operation_lock, then the start of the thread
RunCleanupOperation ==
    /\ Len(replies) < MaxRunCalls
    /\ \E dry_run \in BOOLEAN :
        IF current_operation # 0 /\ operations[current_operation].is_running
        THEN /\ replies' = Append(replies,
                    [ok |-> FALSE, message |-> "Operation already in progress",
                     active |-> ActiveWorkers # {}, started |-> 0,
                     replaced |-> FALSE])
             /\ UNCHANGED <<operations, current_operation, workers,
                            flag_writes>>
        ELSE /\ operations' = Append(operations, OperationStatus(dry_run))
             /\ current_operation' = Len(operations) + 1
             /\ workers' = Append(workers,
                    [pc |-> "start", return_code |-> 0, finished |-> FALSE,
                     lines |-> 0, touched |-> {}])
             /\ flag_writes' = flag_writes
                    \cup {FlagWrite("start", "run_cleanup_operation")}
             /\ replies' = Append(replies,
                    [ok |-> TRUE, message |-> "Operation started",
                     active |-> ActiveWorkers # {}, started |-> 1,
                     replaced |-> TRUE])
    /\ DashUnchanged

\* _run: the first log line and subprocess.Popen, which may raise
WorkerStarts ==
    \E w \in DOMAIN workers :
    /\ workers[w].pc = "start"
    /\ operations' = add_log(operations, "Starting cleanup operation")
    /\ \E raises \in BOOLEAN :
        workers' = [workers EXCEPT ![w].touched = @ \cup {current_operation},
                        ![w].pc = IF raises THEN "except" ELSE "monitor"]
    /\ UNCHANGED <<current_operation, replies, flag_writes>>
    /\ DashUnchanged

\* _run: one pass of the monitor loop that read a line of output
WorkerReadsLine ==
    \E w \in DOMAIN workers :
    /\ workers[w].pc = "monitor"
    /\ LinesRead(Len(workers)) < MaxOutputLines
    /\ \E output \in OutputLines :
        LET logged == add_log(operations, output)
        IN  operations' =
                IF output = "Processing:"
                THEN [logged EXCEPT ![current_operation].progress.processed
                                        = @ + 1]
                ELSE IF output = "DELETED"
                THEN [logged EXCEPT ![current_operation].progress.deleted
                                        = @ + 1]
                ELSE IF output = "ERROR"
                THEN [logged EXCEPT ![current_operation].progress.errors
                                        = @ + 1]
                ELSE logged
    /\ workers' = [workers EXCEPT ![w].touched = @ \cup {current_operation},
                                   ![w].lines = @ + 1]
    /\ UNCHANGED <<current_operation, replies, flag_writes>>
    /\ DashUnchanged

\* _run: the subprocess has ended and the loop is left
WorkerSeesExit ==
    \E w \in DOMAIN workers :
    /\ workers[w].pc = "monitor"
    /\ \E return_code \in {0, 1} :
        workers' = [workers EXCEPT ![w].pc = "exited",
                                   ![w].return_code = return_code]
    /\ UNCHANGED <<operations, current_operation, replies, flag_writes>>
    /\ DashUnchanged

\* _run, return_code == 0: log, then save_operation_to_db, which may raise
WorkerSavesCompleted ==
    \E w \in DOMAIN workers :
    /\ workers[w].pc = "exited"
    /\ workers[w].return_code = 0
    /\ operations' = add_log(operations, "Operation completed successfully")
    /\ \E raises \in BOOLEAN :
        workers' = [workers EXCEPT ![w].touched = @ \cup {current_operation},
                        ![w].pc = IF raises THEN "except" ELSE "saved"]
    /\ UNCHANGED <<current_operation, replies, flag_writes>>
    /\ DashUnchanged

\* _run, return_code == 0: current_operation.finish()
WorkerFinishesCompleted ==
    \E w \in DOMAIN workers :
    /\ workers[w].pc = "saved"
    /\ operations' = finish(operations, None)
    /\ workers' = [workers EXCEPT ![w].touched = @ \cup {current_operation},
                                   ![w].pc = "done", ![w].finished = TRUE]
    /\ flag_writes' = flag_writes \cup {FlagWrite("finish", "_run")}
    /\ UNCHANGED <<current_operation, replies>>
    /\ DashUnchanged

\* _run, return_code != 0: log and current_operation.finish(error_msg)
WorkerFinishesFailed ==
    \E w \in DOMAIN workers :
    /\ workers[w].pc = "exited"
    /\ workers[w].return_code # 0
    /\ operations' = finish(add_log(operations, "Operation failed"),
                            "Operation failed")
    /\ workers' = [workers EXCEPT ![w].touched = @ \cup {current_operation},
                                   ![w].pc = "failed", ![w].finished = TRUE]
    /\ flag_writes' = flag_writes \cup {FlagWrite("finish", "_run")}
    /\ UNCHANGED <<current_operation, replies>>
    /\ DashUnchanged

\* _run, return_code != 0: save_operation_to_db, which may raise
WorkerSavesFailed ==
    \E w \in DOMAIN workers :
    /\ workers[w].pc = "failed"
    /\ \E raises \in BOOLEAN :
        workers' = [workers EXCEPT ![w].touched = @ \cup {current_operation},
                        ![w].pc = IF raises THEN "except" ELSE "done"]
    /\ UNCHANGED <<operations, current_operation, replies, flag_writes>>
    /\ DashUnchanged

\* _run, except Exception: log, current_operation.finish(error_msg) and
\* save_operation_to_db, after which the thread ends whether it raised or not
WorkerHandlesException ==
    \E w \in DOMAIN workers :
    /\ workers[w].pc = "except"
    /\ operations' = finish(add_log(operations, "Exception occurred"),
                            "Exception occurred")
    /\ workers' = [workers EXCEPT ![w].touched = @ \cup {current_operation},
                                   ![w].pc = "done", ![w].finished = TRUE]
    /\ flag_writes' = flag_writes \cup {FlagWrite("finish", "_run")}
    /\ UNCHANGED <<current_operation, replies>>
    /\ DashUnchanged

NextDash ==
    \/ RunCleanupOperation
    \/ WorkerStarts
    \/ WorkerReadsLine
    \/ WorkerSeesExit
    \/ WorkerSavesCompleted
    \/ WorkerFinishesCompleted
    \/ WorkerFinishesFailed
    \/ WorkerSavesFailed
    \/ WorkerHandlesException

SpecDash == InitDash /\ [][NextDash]_vars

\* run_cleanup_operation, for the first few requests only and with the
\* dry_run the dashboard passes by default
RunCleanupOperationEarly ==
    /\ Len(replies) < MaxSlotCalls
    /\ RunCleanupOperation
    /\ \A w \in DOMAIN operations' : operations'[w].dry_run

NextSlot ==
    \/ RunCleanupOperationEarly
    \/ WorkerStarts
    \/ WorkerReadsLine
    \/ WorkerSeesExit
    \/ WorkerSavesCompleted
    \/ WorkerFinishesCompleted
    \/ WorkerFinishesFailed
    \/ WorkerSavesFailed
    \/ WorkerHandlesException

\* a step of a worker thread other than the reading of a line of output
WorkerStep ==
    \/ WorkerStarts
    \/ WorkerSeesExit
    \/ WorkerSavesCompleted
    \/ WorkerFinishesCompleted
    \/ WorkerFinishesFailed
    \/ WorkerSavesFailed
    \/ WorkerHandlesException

\* every started thread keeps running, Popen and save_operation_to_db
\* return or raise, and every subprocess exits
SpecSlot == InitDash /\ [][NextSlot]_vars /\ WF_vars(WorkerStep)

----------------------------------------------------------------------------
(* web_dashboard: the bypass endpoints and the audit table *)

valid_statuses == {"Active", "Bypass", "Disabled", "Locked Out"}

\* the 'status' a request body can carry; None when the field is missing
StatusInputs == {None, "Active", "Bypass", "Locked Out", "locked out", "Admin"}

\* the 'username' a request can carry; None when the field is missing
UsernameInputs == {None, "", "123456", "999999"}

\* the remote accounts at the start
DuoUserStates ==
    {<<>>,
     <<[username |-> "123456", user_id |-> "u1", status |-> "Active"]>>,
     <<[username |-> "123456", user_id |-> "u1", status |-> "Bypass"]>>}

\* the remote after an accepted POST /users/{user_id} with a status
RemoteSetStatus(users, user_id, status) ==
    [i \in DOMAIN users |->
        IF users[i].user_id = user_id
        THEN [users[i] EXCEPT !.status = status] ELSE users[i]]

GetUsersRequest(username) ==
    [method |-> "GET", endpoint |-> "/users", username |-> username,
     user_id |-> None, status |-> None]

PostStatusRequest(user_id, status) ==
    [method |-> "POST", endpoint |-> "/users/{user_id}", username |-> None,
     user_id |-> user_id, status |-> status]

\* the row log_bypass_audit inserts; the timestamp, the actor and the
\* address are left out
AuditRow(username, user_id, action, old_status, new_status, success, error) ==
    [username |-> username, user_id |-> user_id, action |-> action,
     old_status |-> old_status, new_status |-> new_status,
     success |-> success, error_message |-> error]

\* not username
Falsy(v) == v = None \/ v = ""

\* api_get_user_bypass: the HTTP status of the reply, the audit rows inserted
\* and the requests sent to the remote
api_get_user_bypass(username, env, users, resp) ==
    IF Falsy(username)
    THEN [code |-> 400, audit |-> <<>>, sent |-> <<>>]
    ELSE IF ~ env
    THEN \* get_duo_api_client raises ValueError
         [code |-> 500, audit |-> <<>>, sent |-> <<>>]
    ELSE LET got == dashboard_get_user_by_username(resp, users, username)
             req == <<GetUsersRequest(username)>>
         IN  IF got.raised
             THEN [code |-> 500,
                   audit |-> <<AuditRow(username, None, "lookup", None, None,
                                        FALSE, "Exception")>>,
                   sent |-> req]
             ELSE IF got.user = <<>>
             THEN [code |-> 404, audit |-> <<>>, sent |-> req]
             ELSE [code |-> 200,
                   audit |-> <<AuditRow(username, got.user[1].user_id,
                                        "lookup", None, None, TRUE, None)>>,
                   sent |-> req]

\* api_update_user_bypass: the HTTP status of the reply, the audit rows
\* inserted, the requests sent and whether the remote is to be updated
api_update_user_bypass(username, new_status, env, users, resp, uresp) ==
    IF Falsy(username) \/ Falsy(new_status)
    THEN [code |-> 400, audit |-> <<>>, sent |-> <<>>, updated |-> FALSE]
    ELSE IF new_status \notin valid_statuses
    THEN [code |-> 400, audit |-> <<>>, sent |-> <<>>, updated |-> FALSE]
    ELSE IF ~ env
    THEN [code |-> 500, audit |-> <<>>, sent |-> <<>>, updated |-> FALSE]
    ELSE LET got == dashboard_get_user_by_username(resp, users, username)
             req == <<GetUsersRequest(username)>>
         IN  IF got.raised
             THEN [code |-> 500,
                   audit |-> <<AuditRow(username, None, "status_update", None,
                                        new_status, FALSE, "Exception")>>,
                   sent |-> req, updated |-> FALSE]
             ELSE IF got.user = <<>>
             THEN [code |-> 404, audit |-> <<>>, sent |-> req,
                   updated |-> FALSE]
             ELSE LET user_id == got.user[1].user_id
                      old_status == got.user[1].status
                      post == <<PostStatusRequest(user_id, new_status)>>
                  IN  IF old_status = new_status
                      THEN [code |-> 200, audit |-> <<>>, sent |-> req,
                            updated |-> FALSE]
                      ELSE IF update_user_status(uresp)
                      THEN [code |-> 200,
                            audit |-> <<AuditRow(username, user_id,
                                                 "status_update", old_status,
                                                 new_status, TRUE, None)>>,
                            sent |-> req \o post, updated |-> TRUE]
                      ELSE [code |-> 500,
                            audit |-> <<AuditRow(username, user_id,
                                                 "status_update", old_status,
                                                 new_status, FALSE,
                                                 "API update failed")>>,
                            sent |-> req \o post, updated |-> FALSE]

InitBypass ==
    /\ BaseIdle
    /\ SignIdle
    /\ ClassIdle
    /\ ExtraIdle
    /\ duo_env \in BOOLEAN
    /\ duo_users \in DuoUserStates
    /\ bypass_audit = <<>>
    /\ sent = <<>>
    /\ handled = <<>>

\* GET /api/user/bypass
ApiGetUserBypass ==
    /\ Len(handled) < MaxRequests
    /\ \E username \in UsernameInputs, resp \in Responses :
        LET out == api_get_user_bypass(username, duo_env, duo_users, resp)
        IN  /\ bypass_audit' = bypass_audit \o out.audit
            /\ sent' = sent \o out.sent
            /\ handled' = Append(handled,
                    [kind |-> "lookup", username |-> username,
                     status |-> None, code |-> out.code,
                     rows |-> Len(out.audit), requests |-> Len(out.sent)])
    /\ UNCHANGED <<duo_env, duo_users>>
    /\ UNCHANGED <<basevars, signvars, classvars, extravars>>

\* POST /api/user/bypass
ApiUpdateUserBypass ==
    /\ Len(handled) < MaxRequests
    /\ \E username \in UsernameInputs, new_status \in StatusInputs,
          resp \in Responses, uresp \in Responses :
        LET out == api_update_user_bypass(username, new_status, duo_env,
                                          duo_users, resp, uresp)
        IN  /\ bypass_audit' = bypass_audit \o out.audit
            /\ sent' = sent \o out.sent
            /\ duo_users' = IF out.updated
                            THEN RemoteSetStatus(duo_users,
                                    out.sent[2].user_id, new_status)
                            ELSE duo_users
            /\ handled' = Append(handled,
                    [kind |-> "status_update", username |-> username,
                     status |-> new_status, code |-> out.code,
                     rows |-> Len(out.audit), requests |-> Len(out.sent)])
    /\ UNCHANGED duo_env
    /\ UNCHANGED <<basevars, signvars, classvars, extravars>>

\* DuoAdminAPI.update_user_status(user_id, status), called on the client
UpdateUserStatus ==
    /\ Len(handled) < MaxRequests
    /\ \E status \in StatusInputs \ {None}, uresp \in Responses :
        LET ok == update_user_status(uresp)
        IN  /\ sent' = Append(sent, PostStatusRequest("u1", status))
            /\ duo_users' = IF ok THEN RemoteSetStatus(duo_users, "u1", status)
                            ELSE duo_users
            /\ handled' = Append(handled,
                    [kind |-> "update_user_status", username |-> None,
                     status |-> status, code |-> IF ok THEN 200 ELSE 500,
                     rows |-> 0, requests |-> 1])
    /\ UNCHANGED <<duo_env, bypass_audit>>
    /\ UNCHANGED <<basevars, signvars, classvars, extravars>>

NextBypass ==
    \/ ApiGetUserBypass
    \/ ApiUpdateUserBypass
    \/ UpdateUserStatus

SpecBypass == InitBypass /\ [][NextBypass]_vars

----------------------------------------------------------------------------
(* The classifier functions, called on their own *)

\* the characters usernames are made of here: a digit, a letter, the
\* separator and a line end
NameAlphabet == {"1", "a", "@", "\n"}

Usernames == SeqsUpTo(NameAlphabet, MaxNameLen)

\* the values a field of a record can have; None when the key is absent
FieldValues == {None, "", "x"}

\* the arguments of is_student_account and of is_directory_managed; the
\* record is None when absent is set
ClassifierInputs ==
    [kind : {"username"}, username : Usernames, absent : {FALSE},
     user : {Account(<<>>, "u1", None, None, None)}]
    \cup [kind : {"record"}, username : {<<>>}, absent : {FALSE},
          user : {Account(<<>>, "u1", dk, ext, lds) :
                    dk \in FieldValues, ext \in FieldValues,
                    lds \in FieldValues}]
    \cup [kind : {"record"}, username : {<<>>}, absent : {TRUE},
          user : {Account(<<>>, "u1", None, None, None)}]

InitClassifier ==
    /\ BaseIdle
    /\ BypassIdle
    /\ SignIdle
    /\ ExtraIdle
    /\ cl_in \in ClassifierInputs
    /\ cl_pc = "called"
    /\ cl_out = None

\* is_student_account(username)
ClassifyUsername ==
    /\ cl_pc = "called"
    /\ cl_in.kind = "username"
    /\ cl_out' = is_student_account(cl_in.username)
    /\ cl_pc' = "returned"
    /\ UNCHANGED cl_in
    /\ UNCHANGED <<basevars, bypassvars, signvars, extravars>>

\* is_directory_managed(user): user.get raises AttributeError when user is
\* None
ClassifyRecord ==
    /\ cl_pc = "called"
    /\ cl_in.kind = "record"
    /\ IF cl_in.absent
       THEN /\ cl_out' = "AttributeError"
            /\ cl_pc' = "raised"
       ELSE /\ cl_out' = is_directory_managed(cl_in.user)
            /\ cl_pc' = "returned"
    /\ UNCHANGED cl_in
    /\ UNCHANGED <<basevars, bypassvars, signvars, extravars>>

NextClassifier ==
    \/ ClassifyUsername
    \/ ClassifyRecord

SpecClassifier == InitClassifier /\ [][NextClassifier]_vars

----------------------------------------------------------------------------
(* DuoAdminAPI._sign_request and the URL and body _request builds *)

\* the method strings callers pass, and str.upper() of each
Methods == {"GET", "get", "DELETE", "Delete", "POST", "post"}

method_upper(m) ==
    CASE m \in {"GET", "get"} -> "GET"
      [] m \in {"DELETE", "Delete"} -> "DELETE"
      [] m \in {"POST", "post"} -> "POST"

\* the api_host values a client is built with, and str.lower() of each
Hosts == {"api-1.duosecurity.com", "API-1.duosecurity.com",
          "api-2.duosecurity.com"}

host_lower(h) ==
    IF h = "API-1.duosecurity.com" THEN "api-1.duosecurity.com" ELSE h

Paths == {"/admin/v1/users", "/admin/v1/users/u1"}

\* parameter values, as strings of characters
ParamValues ==
    {<<"1", "0", "0">>, <<"0">>, <<"1", "@", "e">>, <<"a", " ", "b">>,
     <<"a", "+", "b">>}

\* the order of the keys as strings
KeyRank(k) ==
    CASE k = "limit" -> 1
      [] k = "offset" -> 2
      [] k = "username" -> 3

\* params=None, the default of _sign_request and _request
NoParams == [given |-> FALSE, items |-> <<>>]

\* a dict, as its items in insertion order
Dict(items) == [given |-> TRUE, items |-> items]

\* params: None, the empty dict, or a dict of one or two items
ParamDicts ==
    {NoParams, Dict(<<>>)}
    \cup {Dict(<<<<"username", v>>>>) :
            v \in {<<"1", "@", "e">>, <<"a", " ", "b">>}}
    \cup {Dict(<<<<"limit", <<"1", "0", "0">>>>, <<"offset", v>>>>) :
            v \in {<<"0">>, <<"1", "0", "0">>}}
    \cup {Dict(<<<<"offset", <<"0">>>>, <<"limit", <<"1", "0", "0">>>>>>)}

\* 'if params': None and the empty dict are false
HasParams(params) == params.given /\ params.items # <<>>

\* sorted(params.items()): by key, for dicts of up to two items
sorted_items(items) ==
    IF Len(items) = 2 /\ KeyRank(items[1][1]) > KeyRank(items[2][1])
    THEN <<items[2], items[1]>>
    ELSE items

\* urllib.parse.quote_plus of a value
RECURSIVE quote_plus(_)
quote_plus(v) ==
    IF v = <<>> THEN <<>>
    ELSE (CASE Head(v) = " " -> <<"+">>
            [] Head(v) = "@" -> <<"%", "4", "0">>
            [] Head(v) = "+" -> <<"%", "2", "B">>
            [] OTHER -> <<Head(v)>>) \o quote_plus(Tail(v))

\* urllib.parse.urlencode of a list of items: key=value joined by '&'
RECURSIVE urlencode(_)
urlencode(items) ==
    IF items = <<>> THEN <<>>
    ELSE <<items[1][1], "=">> \o quote_plus(items[1][2])
         \o (IF Len(items) > 1 THEN <<"&">> ELSE <<>>)
         \o urlencode(Tail(items))

\* the path is left out of the canonical request
canonical_request_without_path(date, method, host, path, params) ==
    <<date, method_upper(method), host_lower(host), "",
      IF HasParams(params) /\ method_upper(method) \in {"GET", "DELETE"}
      THEN urlencode(sorted_items(params.items)) ELSE <<>>>>

\* _sign_request: the list canon, whose fields are joined by newlines
canonical_request(date, method, host, path, params) ==
    <<date, method_upper(method), host_lower(host), path,
      IF HasParams(params) /\ method_upper(method) \in {"GET", "DELETE"}
      THEN urlencode(sorted_items(params.items)) ELSE <<>>>>

\* hmac.new(skey, canon_string, sha1).hexdigest(): a keyed hash, taken to
\* have no collisions
hmac_sha1(skey, canon_string) == <<"hmac-sha1", skey, canon_string>>

\* _sign_request: the headers
sign_headers(in) ==
    LET signature == hmac_sha1(in.skey,
                        canonical_request(in.date, in.method, in.host,
                                          in.path, in.params))
    IN  [Date |-> in.date,
         Authorization |-> <<"Basic ", in.ikey, ":", signature>>,
         Host |-> in.host,
         ContentType |-> "application/x-www-form-urlencoded"]

\* the query string is built from the items in insertion order
request_query_unsorted(method, params) ==
    IF method_upper(method) \in {"GET", "DELETE"} /\ HasParams(params)
    THEN urlencode(params.items) ELSE <<>>

\* _request: what follows '?' in the URL; empty when nothing is appended
request_query(method, params) ==
    IF method_upper(method) \in {"GET", "DELETE"} /\ HasParams(params)
    THEN urlencode(sorted_items(params.items)) ELSE <<>>

\* _request: the data= argument of requests.request, None when not passed
request_body(method, params) ==
    IF method_upper(method) \in {"GET", "DELETE"} THEN NoParams ELSE params

SignInputs ==
    [method : Methods, host : Hosts, path : Paths, params : ParamDicts,
     date : {"Mon, 02 Nov 2026 10:00:00 +0000",
             "Mon, 02 Nov 2026 10:00:01 +0000"},
     skey : {"skey1", "skey2"}, ikey : {"ikey1"}]

\* what one _request call signs and sends
Signed(in) ==
    [canon |-> canonical_request(in.date, in.method, in.host, in.path,
                                 in.params),
     headers |-> sign_headers(in),
     query |-> request_query(in.method, in.params),
     body |-> request_body(in.method, in.params)]

InitSign ==
    /\ BaseIdle
    /\ BypassIdle
    /\ ClassIdle
    /\ ExtraIdle
    /\ sign_in \in SignInputs
    /\ sign_pc = "ready"
    /\ signed = None
    /\ sign_again = None
    /\ signed_again = None

\* _request(method, endpoint, params) up to requests.request
SignRequest ==
    /\ sign_pc = "ready"
    /\ signed' = Signed(sign_in)
    /\ sign_pc' = "signed"
    /\ UNCHANGED <<sign_in, sign_again, signed_again>>
    /\ UNCHANGED <<basevars, bypassvars, classvars, extravars>>

\* the inputs that differ from in in the one argument named by which
Variants(in, which) ==
    CASE which = "same" -> {in}
      [] which = "method" ->
            {[in EXCEPT !.method = m] : m \in Methods \ {in.method}}
      [] which = "host" -> {[in EXCEPT !.host = h] : h \in Hosts \ {in.host}}
      [] which = "path" -> {[in EXCEPT !.path = q] : q \in Paths \ {in.path}}
      [] which = "value" ->
            IF HasParams(in.params)
            THEN UNION {{[in EXCEPT !.params.items[i][2] = v] :
                            v \in ParamValues \ {in.params.items[i][2]}} :
                        i \in DOMAIN in.params.items}
            ELSE {}

\* a second invocation at the same instant with the same secret
SignAgain ==
    /\ sign_pc = "signed"
    /\ \E which \in {"same", "method", "host", "path", "value"} :
        \E in \in Variants(sign_in, which) :
            /\ sign_again' = [which |-> which, in |-> in]
            /\ signed_again' = Signed(in)
    /\ sign_pc' = "compared"
    /\ UNCHANGED <<sign_in, signed>>
    /\ UNCHANGED <<basevars, bypassvars, classvars, extravars>>

NextSign ==
    \/ SignRequest
    \/ SignAgain

SpecSign == InitSign /\ [][NextSign]_vars

----------------------------------------------------------------------------
(* web_dashboard: api_run_cleanup and the command line of the subprocess *)

\* JSON values a client can put in the dry_run field, as their JSON text
JsonValues ==
    {"true", "false", "null", "0", "1", "\"\"", "\"false\"", "[]", "{}"}

\* bool() of the Python value json.loads makes of a JSON value
PyTruthy(v) == v \notin {"false", "null", "0", "\"\"", "[]", "{}"}

\* the bodies of a POST /api/run-cleanup: no JSON body, JSON null or another
\* falsy value that is no object, a JSON value that is truthy and no object,
\* and a JSON object with or without a dry_run and a username_file field
\* (an absent username_file reads as null)
ApiBodies ==
    {[kind |-> k, has_dry_run |-> FALSE, dry_run |-> "null",
      username_file |-> "null"] :
        k \in {"no json", "falsy", "truthy non-object"}}
    \cup {[kind |-> "object", has_dry_run |-> FALSE, dry_run |-> "null",
           username_file |-> f] : f \in {"null", "\"students.txt\""}}
    \cup {[kind |-> "object", has_dry_run |-> TRUE, dry_run |-> v,
           username_file |-> f] :
            v \in JsonValues, f \in {"null", "\"students.txt\""}}

\* _run: cmd, as whether --dry-run ('if dry_run') and --username-file
\* ('if username_file') were appended
cleanup_cmd(dry_run, username_file) ==
    [script |-> "scripts/duo_student_cleanup.py",
     dry_run_flag |-> PyTruthy(dry_run),
     username_file_flag |-> PyTruthy(username_file)]

\* api_run_cleanup with a free slot: the answer and the command launched.
\* request.get_json() returns None or aborts the request when there is no
\* JSON body, depending on the version of Flask (rejects).
api_run_cleanup(body, rejects) ==
    IF body.kind = "no json" /\ rejects
    THEN [code |-> 400, started |-> FALSE, cmd |-> cleanup_cmd("true", "null")]
    ELSE IF body.kind = "truthy non-object"
    THEN \* data.get raises AttributeError
         [code |-> 500, started |-> FALSE, cmd |-> cleanup_cmd("true", "null")]
    ELSE LET dry_run == IF body.kind = "object" /\ body.has_dry_run
                        THEN body.dry_run ELSE "true"
             username_file == IF body.kind = "object" THEN body.username_file
                              ELSE "null"
         IN  [code |-> 200, started |-> TRUE,
              cmd |-> cleanup_cmd(dry_run, username_file)]

InitLaunch ==
    /\ BaseIdle
    /\ BypassIdle
    /\ SignIdle
    /\ ClassIdle
    /\ RaceIdle
    /\ api_body \in ApiBodies
    /\ launch_pc = "received"
    /\ launched = None

\* POST /api/run-cleanup up to subprocess.Popen(cmd) in the worker thread
ApiRunCleanup ==
    /\ launch_pc = "received"
    /\ \E rejects \in BOOLEAN :
        launched' = api_run_cleanup(api_body, rejects)
    /\ launch_pc' = "answered"
    /\ UNCHANGED api_body
    /\ UNCHANGED <<basevars, bypassvars, signvars, classvars, racevars>>

\* the next request arrives
NextApiRequest ==
    /\ launch_pc = "answered"
    /\ \E body \in ApiBodies : api_body' = body
    /\ launch_pc' = "received"
    /\ UNCHANGED launched
    /\ UNCHANGED <<basevars, bypassvars, signvars, classvars, racevars>>

NextLaunch ==
    \/ ApiRunCleanup
    \/ NextApiRequest

SpecLaunch == InitLaunch /\ [][NextLaunch]_vars

----------------------------------------------------------------------------
(* Properties of the cleanup orchestrator *)

IsCall(k, op) == calls[k].op = op

\* the request returned an OK envelope under HTTP 200
RespOK(resp) == ~resp.net /\ resp.status_code = 200 /\ resp.stat = "OK"

\* the record carries a non-empty directory-sync marker
HasSyncMarker(user) ==
    \E v \in {user.directory_key, user.external_id, user.last_directory_sync} :
        v \notin {None, ""}

\* the lookup of call k returned a record
LookupFound(k) == IsCall(k, "lookup") /\ calls[k].user # <<>>

\* the delete requests issued for the i-th candidate
DeleteCallsFor(i) ==
    {d \in DOMAIN calls : IsCall(d, "delete") /\ calls[d].idx = i}

\* the operator was prompted for the i-th candidate
PromptsFor(i) ==
    {d \in DOMAIN calls : IsCall(d, "input") /\ calls[d].idx = i}

\* the operator answered something other than y or Y for the i-th candidate
Declined(i) ==
    \E d \in PromptsFor(i) : calls[d].response \notin {<<"y">>, <<"Y">>}

RunEnded == pc \in {"done", "aborted"}

\* C1: an account whose looked-up record carries a non-empty directory_key,
\* external_id or last_directory_sync is never the target of a delete
\* request, and its candidate is recorded as Skip with managed_by_sync True,
\* whatever the run mode
C1_ManagedNeverDeleted ==
    \A k \in DOMAIN calls :
        (LookupFound(k) /\ HasSyncMarker(calls[k].user[1])) =>
            /\ DeleteCallsFor(calls[k].idx) = {}
            /\ \A d \in DOMAIN calls :
                IsCall(d, "delete") =>
                    calls[d].user_id # calls[k].user[1].user_id
            /\ Len(results) >= calls[k].idx
            /\ results[calls[k].idx].username = calls[k].username
            /\ results[calls[k].idx].action = "Skip"
            /\ results[calls[k].idx].managed_by_sync = "True"

C1_Witness ==
    /\ pc = "done"
    /\ ~args.dry_run
    /\ \E k \in DOMAIN calls :
        /\ LookupFound(k)
        /\ calls[k].user[1].directory_key \in {None, ""}
        /\ HasSyncMarker(calls[k].user[1])
    /\ \E d \in DOMAIN calls : IsCall(d, "delete") /\ calls[d].ok

\* C2: a dry run issues no delete request, and records every found,
\* unmanaged candidate the operator did not decline as Would DELETE with
\* the result Dry run - no action taken
C2_DryRunNeverDeletes ==
    args.dry_run =>
        /\ \A d \in DOMAIN calls : ~IsCall(d, "delete")
        /\ \A k \in DOMAIN calls :
            (/\ LookupFound(k)
             /\ ~HasSyncMarker(calls[k].user[1])
             /\ ~Declined(calls[k].idx)) =>
                /\ Len(results) >= calls[k].idx
                /\ results[calls[k].idx].action = "Would DELETE"
                /\ results[calls[k].idx].result = "Dry run - no action taken"

C2_Witness ==
    /\ pc = "done"
    /\ args.dry_run
    /\ args.interactive
    /\ \E i \in DOMAIN results : results[i].action = "Would DELETE"
    /\ \E i \in DOMAIN results : results[i].result = "User skipped deletion"

\* C3: no delete request is ever issued for a candidate whose username fails
\* the stray-candidate test, also when the candidates come from a file
C3_OnlyStudentsDeleted ==
    \A d \in DOMAIN calls :
        IsCall(d, "delete") =>
            is_student_account(usernames_to_check[calls[d].idx])

\* C4: when a delete request has been issued the backup has been written
\* exactly once, before the first delete request
C4_BackupBeforeDelete ==
    \A d \in DOMAIN calls :
        IsCall(d, "delete") =>
            /\ Len(backup_file) = 1
            /\ \E b \in 1..(d - 1) : IsCall(b, "backup")

\* every candidate was looked up and has its result, and the results file
\* was written
RunCompleted ==
    /\ Len(results) = Len(usernames_to_check)
    /\ \A i \in DOMAIN usernames_to_check :
        \E k \in DOMAIN calls : IsCall(k, "lookup") /\ calls[k].idx = i
    /\ results_file = <<CsvFile(results)>>

\* C5: after a failed delete request the candidate is recorded as ERROR, the
\* run is not aborted, and it ends with every candidate processed and the
\* results file written
C5_DeleteFailureNeverAborts ==
    \A d \in DOMAIN calls :
        (IsCall(d, "delete") /\ ~RespOK(calls[d].resp)) =>
            /\ results[calls[d].idx].action = "ERROR"
            /\ pc # "aborted"
            /\ RunEnded => RunCompleted

\* C6: after a failed lookup a result is recorded for the candidate, the run
\* is not aborted, and it ends with every candidate processed and the
\* results file written
C6_LookupFailureNeverAborts ==
    \A k \in DOMAIN calls :
        (IsCall(k, "lookup") /\ ~RespOK(calls[k].resp)) =>
            /\ Len(results) >= calls[k].idx
            /\ pc # "aborted"
            /\ RunEnded => RunCompleted

\* C7: a failed list_users page request ends the run with the exception
\* propagated: nothing follows it, no backup is written, no lookup and no
\* delete request is made, no results file is written
C7_ListFailureIsFatal ==
    \A k \in DOMAIN calls :
        (IsCall(k, "list") /\ ~RespOK(calls[k].resp)) =>
            /\ pc = "aborted"
            /\ exc # None
            /\ k = Len(calls)
            /\ backup_file = <<>>
            /\ \A j \in DOMAIN calls :
                ~IsCall(j, "lookup") /\ ~IsCall(j, "delete")
            /\ results = <<>>
            /\ results_file = <<>>

C7_Witness ==
    \E k \in DOMAIN calls :
        /\ IsCall(k, "list")
        /\ ~RespOK(calls[k].resp)
        /\ calls[k].offset > 0
        /\ all_users # <<>>

\* C8: in a run that is neither dry nor interactive, every candidate whose
\* lookup returns a record without sync marker gets exactly one delete
\* request, addressed to that record's user_id, and is recorded as DELETED
\* when delete_user returned True and as ERROR otherwise
C8_OneDeletePerDeletable ==
    (~args.dry_run /\ ~args.interactive) =>
        \A k \in DOMAIN calls :
            (LookupFound(k) /\ ~HasSyncMarker(calls[k].user[1])) =>
                /\ Cardinality(DeleteCallsFor(calls[k].idx)) = 1
                /\ \A d \in DeleteCallsFor(calls[k].idx) :
                    /\ d > k
                    /\ calls[d].user_id = calls[k].user[1].user_id
                    /\ results[calls[k].idx].action =
                           IF calls[d].ok THEN "DELETED" ELSE "ERROR"

C8_Witness ==
    /\ pc = "done"
    /\ ~args.dry_run
    /\ ~args.interactive
    /\ \E i \in DOMAIN results : results[i].action = "DELETED"
    /\ \E i \in DOMAIN results : results[i].action = "ERROR"

\* C9: a candidate whose lookup returns no record is recorded with in_duo
\* False, action None and result Not found in Duo, and neither a delete
\* request nor a prompt is made for it
C9_NotFoundRecorded ==
    \A k \in DOMAIN calls :
        (IsCall(k, "lookup") /\ RespOK(calls[k].resp) /\ calls[k].user = <<>>) =>
            /\ Len(results) >= calls[k].idx
            /\ results[calls[k].idx].username = calls[k].username
            /\ results[calls[k].idx].in_duo = FALSE
            /\ results[calls[k].idx].action = "None"
            /\ results[calls[k].idx].result = "Not found in Duo"
            /\ DeleteCallsFor(calls[k].idx) = {}
            /\ PromptsFor(calls[k].idx) = {}

C9_Witness ==
    /\ pc = "done"
    /\ args.interactive
    /\ ~args.dry_run
    /\ \E i \in DOMAIN results : results[i].result = "Not found in Duo"
    /\ \E i \in DOMAIN results : results[i].action = "DELETED"

----------------------------------------------------------------------------
(* Properties of both clients *)

AuthFailure(status_code) == status_code \in {401, 403}

\* C10: an authentication failure (401, 403) is never retried and aborts the
\* batch: in bulk_delete_users_safe and in the orchestrator's loop no user
\* is processed after it, the call does not return normally, and the
\* failure is not recorded as an ordinary per-user failure
C10_AuthFailureAbortsBatch ==
    /\ \A n \in 1..(Len(attempts) - 1) : ~AuthFailure(attempts[n].status_code)
    /\ \A n \in DOMAIN deletes :
        AuthFailure(deletes[n].last.status_code) =>
            /\ n = Len(deletes)
            /\ bpc # "returned"
            /\ deletes[n].user_id \notin
                   {bulk_results.failed[j] : j \in DOMAIN bulk_results.failed}
    /\ \A d \in DOMAIN calls :
        (IsCall(d, "delete") /\ AuthFailure(calls[d].resp.status_code)) =>
            /\ \A k \in (d + 1)..Len(calls) : ~IsCall(k, "lookup")
            /\ pc \notin {"processing", "done"}
            /\ results[calls[d].idx].action # "ERROR"

----------------------------------------------------------------------------
(* Properties of the retry policy *)

\* every call of func so far raised a retried exception
AllRetried == \A n \in DOMAIN attempts : attempts[n].error \in RetriedErrors

\* min(base_delay * exponential_base ** n, max_delay), before any jitter
NominalDelay(n) ==
    LET d == retry_params.base_delay * Pow(retry_params.exponential_base, n)
    IN  IF d > retry_params.max_delay THEN retry_params.max_delay ELSE d

\* the wrapper returned after k retried failures, k < max_retries
ReturnedAfterRetries ==
    /\ rpc = "returned"
    /\ Len(attempts) - 1 < retry_params.max_retries

C13_NonRetryableRaisedAtOnce ==
    \A n \in DOMAIN attempts :
        attempts[n].error \in
            {"DuoAuthenticationError", "DuoNotFoundError", "DuoAPIError"} =>
            /\ n = Len(attempts)
            /\ rpc = "raised"
            /\ retry_out = [raised |-> TRUE, error |-> attempts[n].error,
                            attempt |-> n - 1]
            /\ Len(sleeps) = n - 1

C13_Witness ==
    /\ rpc = "raised"
    /\ Len(attempts) = 3
    /\ attempts[3].error = "DuoAPIError"
    /\ attempts[1].error = "Timeout"

\* C14: when every call of func raises a retried exception, func is called
\* max_retries + 1 times, on attempts 0..max_retries, the wrapper sleeps
\* max_retries times, none of them after the final attempt, and raises the
\* exception of the final attempt
C14_Exhaustion ==
    AllRetried =>
        /\ Len(attempts) <= retry_params.max_retries + 1
        /\ \A n \in DOMAIN attempts : attempts[n].attempt = n - 1
        /\ Len(sleeps) = Min(Len(attempts), retry_params.max_retries)
        /\ rpc # "returned"
        /\ rpc = "raised" <=> Len(attempts) = retry_params.max_retries + 1
        /\ rpc = "raised" =>
            retry_out = [raised |-> TRUE,
                         error |-> attempts[Len(attempts)].error,
                         attempt |-> retry_params.max_retries]

C14_Witness ==
    /\ AllRetried
    /\ rpc = "raised"
    /\ retry_params.max_retries = 2
    /\ attempts[1].error = "Timeout"
    /\ attempts[3].error = "DuoServerError"

----------------------------------------------------------------------------
(* Properties of single client calls *)

CallEnded == cpc \in {"returned", "raised"}

LastAttempt == attempts[Len(attempts)]

IsLookup == client_call.op \in {"get_user_by_username", "get_user_safe"}

IsDelete == client_call.op \in {"delete_user", "delete_user_safe"}

\* the response arrived with HTTP 200 and an envelope whose stat is not OK
NonOkEnvelope(a) ==
    a.raises = None /\ a.status_code = 200 /\ a.stat # "OK"

\* the response arrived with HTTP 200 and an OK envelope
OkEnvelope(a) ==
    a.raises = None /\ a.status_code = 200 /\ a.stat = "OK"

\* C15: in the enhanced client an attempt whose HTTP call timed out or
\* failed to connect, and that is not the last attempt the policy allows, is
\* followed by a backoff sleep and another attempt: the call does not end
\* with it.
C15_NetworkFailuresRetried ==
    client_call.client = "enhanced" =>
        \A n \in DOMAIN attempts :
            (attempts[n].raises \in {"Timeout", "ConnectionError"}
             /\ n <= max_retries)
            => /\ Len(sleeps) >= n
               /\ ~ (CallEnded /\ Len(attempts) = n)

\* C18: a response with HTTP 200 whose stat is not OK raises in the request
\* layer of every client, is the last attempt of its call and is followed by
\* no backoff sleep; a delete or update then returns False and a lookup
\* raises.
C18_NonOkEnvelopeIsError ==
    \A n \in DOMAIN attempts :
        NonOkEnvelope(attempts[n])
        => /\ attempts[n].error # None
           /\ n = Len(attempts)
           /\ Len(sleeps) = n - 1
           /\ CallEnded
           /\ IF IsLookup
              THEN cpc = "raised" /\ call_out.raised
              ELSE cpc = "returned"
                   /\ call_out = [raised |-> FALSE, value |-> FALSE]

C18_Witness ==
    /\ client_call.op = "get_user_safe"
    /\ client_call.dir = <<>>
    /\ Len(attempts) = 2
    /\ attempts[1].status_code = 500
    /\ NonOkEnvelope(attempts[2])
    /\ cpc = "raised"

\* C19: a lookup of the cleanup client or of the enhanced client returns the
\* first record of a non-empty list response, and returns None when the
\* remote reports no such user, by an empty list or by HTTP 404.
C19_LookupNeverRaisesForAbsence ==
    (CallEnded /\ IsLookup /\ client_call.client \in {"cleanup", "enhanced"})
    => LET a == LastAttempt
           found == RemoteUsersNamed(client_call.dir, client_call.username)
       IN  /\ (OkEnvelope(a) /\ found # <<>>)
              => call_out = [raised |-> FALSE, value |-> <<found[1]>>]
           /\ (OkEnvelope(a) /\ found = <<>>)
              => call_out = [raised |-> FALSE, value |-> <<>>]
           /\ (a.raises = None /\ a.status_code = 404)
              => call_out = [raised |-> FALSE, value |-> <<>>]

\* C20: delete_user and delete_user_safe never raise, and return True
\* exactly when the last DELETE request came back with HTTP 200 and an OK
\* envelope.
C20_DeleteReportsBoolean ==
    (CallEnded /\ IsDelete)
    => /\ cpc = "returned"
       /\ ~ call_out.raised
       /\ call_out.value = OkEnvelope(LastAttempt)

C20_Witness ==
    /\ client_call.op = "delete_user_safe"
    /\ cpc = "returned"
    /\ Len(attempts) = max_retries + 1
    /\ LastAttempt.status_code = 429
    /\ call_out = [raised |-> FALSE, value |-> FALSE]

----------------------------------------------------------------------------
(* Properties of the rate limiter *)

\* C16: two consecutive wait_if_needed() calls of one sequential caller
\* return at least min_interval apart; the first call, and a call made
\* min_interval or more after the previous return, does not sleep; after
\* every call last_call_time is the instant the call returned.
C16_LimiterSpacing ==
    LET min_interval == min_interval_of(calls_per_minute)
    IN  /\ \A i \in DOMAIN waits :
            /\ i > 1 => waits[i].returned - waits[i - 1].returned
                        >= min_interval
            /\ (i = 1 \/ waits[i].called - waits[i - 1].returned
                         >= min_interval)
               => ~ waits[i].slept /\ waits[i].sleep_time = 0
        /\ waits # <<>> => last_call_time = waits[Len(waits)].returned

C16_Witness ==
    /\ Len(waits) = 3
    /\ ~ waits[1].slept
    /\ waits[2].slept
    /\ waits[2].sleep_time = min_interval_of(calls_per_minute)
    /\ ~ waits[3].slept
    /\ calls_per_minute = 50

----------------------------------------------------------------------------
(* Properties of the HTTP error taxonomy *)

\* the exception class the taxonomy names for a status code, None for none
TaxonomyClass(c) ==
    CASE c \in {401, 403} -> "DuoAuthenticationError"
      [] c = 404 -> "DuoNotFoundError"
      [] c = 429 -> "DuoRateLimitError"
      [] c >= 500 -> "DuoServerError"
      [] c >= 400 /\ c < 500 /\ c \notin {401, 403, 404, 429} -> "DuoAPIError"
      [] c < 400 -> None

\* C17: _handle_response_errors raises the class the taxonomy names for the
\* status code and nothing for a code below 400; the rate-limit error's
\* message holds the Retry-After value the server sent; the retry wrapper
\* sleeps and retries for the rate-limit and server errors only, and raises
\* the other errors at once.
C17_ErrorTaxonomy ==
    /\ tpc \in {"handled", "decided"}
       => /\ raised_error.class = TaxonomyClass(http_response.status_code)
          /\ (http_response.status_code = 429 /\ http_response.retry_after # None)
             => raised_error.message[2] = http_response.retry_after
    /\ (tpc = "decided" /\ raised_error.class # None)
       => IF raised_error.class \in {"DuoRateLimitError", "DuoServerError"}
          THEN decision.step = IF decision.attempt < max_retries
                               THEN "sleep" ELSE "raise last_exception"
          ELSE decision.step = "raise"

C17_Witness ==
    /\ tpc = "decided"
    /\ http_response.status_code = 429
    /\ http_response.retry_after = "30"
    /\ raised_error.class = "DuoRateLimitError"
    /\ decision = [attempt |-> 1, step |-> "sleep"]

----------------------------------------------------------------------------
(* Properties of the dashboard's cleanup runs *)

\* C11: at most one worker thread is between its start and its finish();
\* a run_cleanup_operation call made while a worker is active is refused,
\* and a refused call answers (False, 'Operation already in progress'),
\* starts no thread and leaves current_operation and its object as they
\* were.
C11_OneRunAtATime ==
    /\ Cardinality(ActiveWorkers) <= 1
    /\ \A k \in DOMAIN replies :
        /\ replies[k].active => ~ replies[k].ok
        /\ ~ replies[k].ok
           => /\ replies[k].message = "Operation already in progress"
              /\ replies[k].started = 0
              /\ ~ replies[k].replaced

----------------------------------------------------------------------------
(* Properties of candidate collection and of the results *)

\* the candidates are collected
Collected == pc \in {"processing", "done"}

\* the positions of the first and of the last character of a line that is
\* not white space; 0 when the line is blank
FirstInk(l) ==
    IF \A i \in DOMAIN l : l[i] \in Whitespace THEN 0
    ELSE CHOOSE i \in DOMAIN l :
            /\ l[i] \notin Whitespace
            /\ \A j \in 1..(i - 1) : l[j] \in Whitespace

LastInk(l) ==
    IF \A i \in DOMAIN l : l[i] \in Whitespace THEN 0
    ELSE CHOOSE i \in DOMAIN l :
            /\ l[i] \notin Whitespace
            /\ \A j \in (i + 1)..Len(l) : l[j] \in Whitespace

\* the k-th smallest member of a set of numbers
Kth(S, k) == CHOOSE i \in S : Cardinality({j \in S : j < i}) = k - 1

\* the entries of the list a username file holds: its lines that are not
\* blank, each without the line end and the white space around it
SuppliedList(lines) ==
    LET inked == {i \in DOMAIN lines : FirstInk(lines[i]) # 0}
    IN  [k \in 1..Cardinality(inked) |->
            LET l == lines[Kth(inked, k)]
            IN  SubSeq(l, FirstInk(l), LastInk(l))]

\* C22: with a username file the candidates are the entries of the file, in
\* order and with their repetitions, and no list request and no backup is
\* made; without one the candidates are the usernames of the fetched
\* records that is_student_account accepts, in fetch order.
C22_CandidateCollection ==
    Collected =>
        IF args.username_file # None
        THEN /\ usernames_to_check = SuppliedList(file_lines)
             /\ \A k \in DOMAIN calls : ~ IsCall(k, "list")
             /\ backup_file = <<>>
        ELSE LET S == {i \in DOMAIN all_users :
                            is_student_account(all_users[i].username)}
             IN  /\ Len(usernames_to_check) = Cardinality(S)
                 /\ \A k \in DOMAIN usernames_to_check :
                        usernames_to_check[k] = all_users[Kth(S, k)].username

C22_Witness ==
    /\ pc = "done"
    /\ args.username_file # None
    /\ Len(file_lines) = 2
    /\ usernames_to_check = <<Staff1, Staff1>>
    /\ Len(results) = 2

\* C23: while the loop runs there is one result for each candidate handled
\* so far, with that candidate's username; a run that completes has written
\* the CSV once, with the header and one row for each candidate, the i-th
\* row for the i-th candidate.
C23_OneRowPerUsername ==
    /\ pc = "processing"
       => /\ Len(results) = idx - 1
          /\ \A i \in DOMAIN results :
                results[i].username = usernames_to_check[i]
    /\ pc = "done"
       => /\ Len(results) = Len(usernames_to_check)
          /\ \A i \in DOMAIN results :
                results[i].username = usernames_to_check[i]
          /\ Len(results_file) = 1
          /\ results_file[1].header
                = "Username,In_Duo,Managed_By_Sync,Action,Result"
          /\ Len(results_file[1].rows) = Len(usernames_to_check)
          /\ \A i \in DOMAIN usernames_to_check :
                results_file[1].rows[i][1] = usernames_to_check[i]

C23_Witness ==
    /\ pc = "done"
    /\ args.interactive
    /\ Len(results) = 2
    /\ results[1].result = "User skipped deletion"
    /\ results[2].action = "DELETED"
    /\ Len(results_file[1].rows) = 2

----------------------------------------------------------------------------
(* Properties of the bypass endpoints *)

\* C21: no POST carrying a status outside Active, Bypass, Disabled and
\* Locked Out is sent to the remote, whoever calls the update operation, and
\* a request with such a status makes no remote request at all.
C21_OnlyValidStatusSent ==
    /\ \A k \in DOMAIN sent :
        sent[k].method = "POST"
        => sent[k].status \in {"Active", "Bypass", "Disabled", "Locked Out"}
    /\ \A k \in DOMAIN handled :
        (handled[k].kind \in {"status_update", "update_user_status"}
         /\ handled[k].status # None
         /\ handled[k].status
                \notin {"Active", "Bypass", "Disabled", "Locked Out"})
        => handled[k].requests = 0

\* C24: with the client's credentials configured, every look-up request and
\* every status-change request that names a user (and a valid status) adds
\* exactly one row to bypass_audit, whatever its outcome.
C24_OneAuditRowPerAction ==
    \A k \in DOMAIN handled :
        (handled[k].kind \in {"lookup", "status_update"}
         /\ duo_env
         /\ handled[k].username \notin {None, ""}
         /\ (handled[k].kind = "status_update"
             => handled[k].status \in {"Active", "Bypass", "Disabled",
                                       "Locked Out"}))
        => handled[k].rows = 1

----------------------------------------------------------------------------
(* Properties of the classifier functions *)

\* exactly six decimal digits, optionally followed by '@' and anything
SixDigitsThenOptionalAt(u) ==
    /\ Len(u) >= 6
    /\ \A i \in 1..6 : u[i] \in {"0", "1", "2", "3", "4", "5", "6", "7", "8", "9"}
    /\ Len(u) > 6 => u[7] = "@"

\* C25: is_student_account returns true for a username that is exactly six
\* decimal digits, optionally followed by '@' and anything, and false for
\* every other string.
C25_StudentPattern ==
    (cl_in.kind = "username" /\ cl_pc # "called")
    => /\ cl_pc = "returned"
       /\ cl_out = SixDigitsThenOptionalAt(cl_in.username)

\* C26: is_directory_managed returns true exactly for a record with a
\* non-empty directory_key, external_id or last_directory_sync, and returns
\* false for an absent record.
C26_ManagedTest ==
    (cl_in.kind = "record" /\ cl_pc # "called")
    => /\ cl_pc = "returned"
       /\ cl_out = (/\ ~ cl_in.absent
                    /\ \E v \in {cl_in.user.directory_key,
                                cl_in.user.external_id,
                                cl_in.user.last_directory_sync} :
                            v \notin {None, ""})

----------------------------------------------------------------------------
(* Properties of request signing *)

\* the method is GET or DELETE, in any letter case
IsGetOrDelete(m) == m \in {"GET", "get", "DELETE", "Delete"}

\* the items are in ascending order of their keys
KeysAscend(items) ==
    \A i, j \in DOMAIN items : i < j => KeyRank(items[i][1]) < KeyRank(items[j][1])

\* the orderings of the items of a dict
Orderings(items) ==
    {q \in [DOMAIN items -> {items[i] : i \in DOMAIN items}] :
        \A i \in DOMAIN items : \E j \in DOMAIN q : q[j] = items[i]}

\* the signature inside the Authorization header
SignatureOf(sg) == sg.headers.Authorization[4]

C28_SignatureChangesWithAnyInput ==
    sign_pc = "compared" =>
        /\ sign_again.which = "same" => signed_again.headers = signed.headers
        /\ (\/ sign_again.which \in {"method", "path", "host"}
            \/ sign_again.which = "value" /\ IsGetOrDelete(sign_in.method))
           => SignatureOf(signed_again) # SignatureOf(signed)

\* C28 amended: a second invocation with the same arguments gives the same
\* headers; one that differs in the path or in one signed parameter value
\* gives another signature; one that differs in the method or in the host
\* gives another signature unless the two differ in letter case only.
C28_SignatureChangesUpToCase ==
    sign_pc = "compared" =>
        /\ sign_again.which = "same" => signed_again.headers = signed.headers
        /\ (\/ sign_again.which = "path"
            \/ sign_again.which = "value" /\ IsGetOrDelete(sign_in.method))
           => SignatureOf(signed_again) # SignatureOf(signed)
        /\ sign_again.which = "method"
           => (SignatureOf(signed_again) = SignatureOf(signed)
               <=> method_upper(sign_again.in.method)
                     = method_upper(sign_in.method))
        /\ sign_again.which = "host"
           => (SignatureOf(signed_again) = SignatureOf(signed)
               <=> host_lower(sign_again.in.host) = host_lower(sign_in.host))

C28_Witness ==
    /\ sign_pc = "compared"
    /\ sign_again.which = "value"
    /\ sign_in.method = "GET"
    /\ sign_in.params.items = <<<<"username", <<"a", " ", "b">>>>>>
    /\ sign_again.in.params.items = <<<<"username", <<"a", "+", "b">>>>>>
    /\ SignatureOf(signed_again) # SignatureOf(signed)

----------------------------------------------------------------------------
(* Properties of the paginated export and of the pauses *)

\* the records returned by the list calls before position k of calls
RECURSIVE ReceivedBefore(_)
ReceivedBefore(k) ==
    IF k <= 1 THEN 0
    ELSE ReceivedBefore(k - 1)
         + (IF calls[k - 1].op = "list" THEN calls[k - 1].received ELSE 0)

\* a list call answered with the empty page
IsEmptyPage(k) ==
    calls[k].op = "list" /\ RespOK(calls[k].resp) /\ calls[k].received = 0

\* the export has just ended and no candidate has been processed yet
ExportJustEnded ==
    args.username_file = None /\ pc = "processing" /\ idx = 1

C29_ExportInOrder ==
    args.username_file = None =>
        /\ \A k \in DOMAIN calls :
             calls[k].op = "list" => calls[k].offset = ReceivedBefore(k)
        /\ \A k, l \in DOMAIN calls :
             (IsEmptyPage(k) /\ k < l) => calls[l].op # "list"
        /\ ExportJustEnded =>
             /\ all_users = directory
             /\ \E k \in DOMAIN calls : IsEmptyPage(k)

\* C29: every list call's offset is the number of records received so far,
\* no list call follows an empty page, the collection loop ends, and when it
\* ends on the empty page all_users is the remote directory, every record
\* once and in server order.
C29_PaginatedExport ==
    [] C29_ExportInOrder /\ <>(pc # "collecting")

C29_Witness ==
    /\ ExportJustEnded
    /\ Len(directory) = 3
    /\ all_users = directory
    /\ LET lists == SelectSeq(calls, LAMBDA c : c.op = "list")
       IN  /\ [k \in DOMAIN lists |-> lists[k].offset] = <<0, 2, 3>>
           /\ [k \in DOMAIN lists |-> lists[k].received] = <<2, 1, 0>>

\* position k of calls is a request to the remote service
IsRemoteCall(k) == calls[k].op \in {"list", "lookup", "delete"}

\* C30: between any two consecutive remote calls of a run (list page, lookup,
\* delete) main has paused for the configured delay.
C30_PauseBetweenRemoteCalls ==
    \A k, l \in DOMAIN calls :
        (/\ k < l
         /\ IsRemoteCall(k)
         /\ IsRemoteCall(l)
         /\ \A j \in (k + 1)..(l - 1) : ~ IsRemoteCall(j))
        => \E j \in (k + 1)..(l - 1) : calls[j].op = "sleep"

----------------------------------------------------------------------------
(* Properties of the operator prompt and of the recorded results *)

\* the answer is y in either letter case
AnsweredYes(response) == response \in {<<"y">>, <<"Y">>}

\* C33: the operator is prompted only in interactive mode and only right
\* after the lookup of the same candidate returned an unmanaged record; in
\* interactive mode a delete request comes right after that candidate's
\* prompt answered y or Y; any other answer records action Skip with result
\* User skipped deletion and no delete request is issued for the candidate.
C33_PromptGatesDeletion ==
    /\ \A k \in DOMAIN calls :
         IsCall(k, "input") =>
            /\ args.interactive
            /\ k > 1
            /\ LookupFound(k - 1)
            /\ calls[k - 1].idx = calls[k].idx
            /\ ~ HasSyncMarker(calls[k - 1].user[1])
            /\ Len(results) >= calls[k].idx
            /\ ~ AnsweredYes(calls[k].response) =>
                  /\ results[calls[k].idx].action = "Skip"
                  /\ results[calls[k].idx].result = "User skipped deletion"
                  /\ results[calls[k].idx].username = calls[k - 1].username
                  /\ DeleteCallsFor(calls[k].idx) = {}
    /\ args.interactive =>
         \A d \in DOMAIN calls :
            IsCall(d, "delete") =>
                /\ d > 1
                /\ IsCall(d - 1, "input")
                /\ calls[d - 1].idx = calls[d].idx
                /\ AnsweredYes(calls[d - 1].response)

C33_Witness ==
    /\ pc = "done"
    /\ args.interactive
    /\ \E k, d \in DOMAIN calls :
         /\ IsCall(k, "input")
         /\ calls[k].response = <<"y", "e", "s">>
         /\ results[calls[k].idx].action = "Skip"
         /\ IsCall(d, "delete")
         /\ calls[d - 1].response = <<"Y">>

\* the three shapes of a result record
NotFoundShape(r) == ~ r.in_duo /\ r.action = "None"

ManagedShape(r) == r.managed_by_sync = "True" /\ r.action = "Skip"

UnmanagedShape(r) ==
    /\ r.in_duo
    /\ r.managed_by_sync = "False"
    /\ r.action \in {"Skip", "Would DELETE", "DELETED", "ERROR"}

ShapesOf(r) ==
    {n \in 1..3 : \/ n = 1 /\ NotFoundShape(r)
                  \/ n = 2 /\ ManagedShape(r)
                  \/ n = 3 /\ UnmanagedShape(r)}

\* the results each line of the summary counts
Tallied ==
    <<{i \in DOMAIN results : ~ results[i].in_duo},
      {i \in DOMAIN results : results[i].managed_by_sync = "True"},
      {i \in DOMAIN results : results[i].action = "DELETED"},
      {i \in DOMAIN results : results[i].action = "Would DELETE"},
      {i \in DOMAIN results : results[i].action = "ERROR"}>>

\* the results of the candidates the operator declined
DeclinedResults ==
    {i \in DOMAIN results :
        results[i].action = "Skip" /\ results[i].managed_by_sync = "False"}

\* C40: every recorded result has exactly one of the three shapes; DELETED
\* and ERROR occur only outside a dry run and Would DELETE only in a dry
\* run; the five sets of results the summary counts are pairwise disjoint
\* and the five counts add up to the total minus the declined candidates.
C40_ResultsWellFormed ==
    /\ \A i \in DOMAIN results :
         /\ Cardinality(ShapesOf(results[i])) = 1
         /\ results[i].action \in {"DELETED", "ERROR"} => ~ args.dry_run
         /\ results[i].action = "Would DELETE" => args.dry_run
    /\ \A a, b \in 1..5 : a # b => Tallied[a] \cap Tallied[b] = {}
    /\ LET sm == Summary(results)
       IN  /\ sm.total = Len(results)
           /\ sm.not_in_duo + sm.managed + sm.deleted + sm.would_delete
                + sm.errors
              = sm.total - Cardinality(DeclinedResults)

C40_Witness ==
    /\ pc = "done"
    /\ args.interactive
    /\ ~ args.dry_run
    /\ Len(results) = 2
    /\ DeclinedResults = {1}
    /\ Summary(results).managed = 1

----------------------------------------------------------------------------
(* Properties of bulk_delete_users_safe *)

\* the number of batches of b ids that n ids fill, the last one maybe partly
BatchCount(n, b) == (n + b - 1) \div b

\* C34: on return the extra pause was taken once after every batch, the
\* last batch included: ceil(n / batch_size) times for n ids.
C34_PauseAfterEveryBatch ==
    bpc = "returned" =>
        Len(pauses) = BatchCount(Len(user_ids), batch_size)

\* the ids at the positions of user_ids whose delete returned ok
IdsWhere(ok) ==
    LET RECURSIVE Pick(_)
        Pick(k) ==
            IF k = 0 THEN <<>>
            ELSE IF deletes[k].ok = ok
            THEN Append(Pick(k - 1), user_ids[k])
            ELSE Pick(k - 1)
    IN  Pick(Len(user_ids))

\* C36: on return one delete was made per position of user_ids, in order;
\* results['success'] holds the ids whose delete returned True and
\* results['failed'] the others, both in input order; the two lengths add up
\* to len(user_ids); a given progress callback received (1, total),
\* (2, total), ..., (total, total), once each and in this order.
C36_BulkPartition ==
    bpc = "returned" =>
        /\ Len(deletes) = Len(user_ids)
        /\ \A k \in DOMAIN deletes : deletes[k].user_id = user_ids[k]
        /\ bulk_results.success = IdsWhere(TRUE)
        /\ bulk_results.failed = IdsWhere(FALSE)
        /\ Len(bulk_results.success) + Len(bulk_results.failed)
             = Len(user_ids)
        /\ progress_callback =>
             progress = [k \in 1..Len(user_ids) |-> <<k, Len(user_ids)>>]
        /\ ~ progress_callback => progress = <<>>

C36_Witness ==
    /\ bpc = "returned"
    /\ progress_callback
    /\ user_ids = <<"u1", "u1">>
    /\ bulk_results = [success |-> <<"u1">>, failed |-> <<"u1">>]
    /\ deletes[1].ok
    /\ progress = <<<<1, 2>>, <<2, 2>>>>

----------------------------------------------------------------------------
(* Properties of the rate limiter inside the retrying client *)

\* C31: every HTTP attempt of a request, retries included, is sent at the
\* instant a wait_if_needed() call of its own returns, so limiter passes and
\* attempts are equal in number, and a retry is sent at least min_interval
\* after the attempt before it.
C31_EveryAttemptGated ==
    cpc \in {"calling", "returned", "raised"} /\ lpc # "idle" =>
        /\ Len(waits) = Len(attempts)
        /\ \A k \in DOMAIN attempts :
             /\ attempts[k].sent = waits[k].returned
             /\ k > 1 => attempts[k].sent - attempts[k - 1].sent
                            >= min_interval_of(calls_per_minute)

C31_Witness ==
    /\ cpc = "returned"
    /\ lpc = "working"
    /\ Len(attempts) = 3
    /\ attempts[1].status_code = 429
    /\ attempts[2].status_code = 500
    /\ waits[2].slept
    /\ ~ waits[3].slept

----------------------------------------------------------------------------
(* Properties of the dashboard's run state *)

\* C35: every write of an is_running field, by start() as by finish(), is
\* made by a thread that holds operation_lock.
C35_RunStateWrittenUnderLock ==
    \A fw \in flag_writes : fw.holds_lock

\* C39: every OperationStatus the worker of run R reached through the global
\* current_operation is the one created for R.
C39_WorkerTouchesOwnStatus ==
    \A w \in DOMAIN workers : workers[w].touched \subseteq {w}

\* no OperationStatus has is_running set
SlotFree == \A w \in DOMAIN operations : ~ operations[w].is_running

\* a run_cleanup_operation call made while the slot is free is accepted
FreeSlotAccepts ==
    (SlotFree /\ Len(replies') = Len(replies) + 1)
        => replies'[Len(replies')].ok

\* C38: the is_running flag of every accepted operation is eventually
\* False, whether its subprocess exited with zero or not or launching,
\* monitoring or saving raised; and a call made while no flag is set is
\* accepted.
C38_SlotReleased ==
    /\ \A w \in 1..MaxSlotCalls :
         (w \in DOMAIN operations)
            ~> (w \in DOMAIN operations /\ ~ operations[w].is_running)
    /\ [][FreeSlotAccepts]_vars

C38_Witness ==
    /\ Len(replies) = 2
    /\ replies[2].ok
    /\ workers[1].pc = "done"
    /\ operations[1].error = "Exception occurred"
    /\ ~ operations[1].is_running
    /\ workers[2].pc = "done"
    /\ operations[2].error = None
    /\ SlotFree

----------------------------------------------------------------------------
(* Properties of the run-cleanup endpoint *)

\* C37: a cleanup started through api_run_cleanup is launched without
\* --dry-run only when the body is an object whose dry_run field is the
\* boolean false; every other body that starts a run starts it with
\* --dry-run.
C37_DryRunUnlessExactlyFalse ==
    (launch_pc = "answered" /\ launched.started) =>
        (~ launched.cmd.dry_run_flag
            <=> /\ api_body.kind = "object"
                /\ api_body.has_dry_run
                /\ api_body.dry_run = "false")

----------------------------------------------------------------------------
(* Properties of a RateLimiter shared by two threads *)

BothReturned == \A t \in Threads : threads[t].pc = "returned"

ReturnGap ==
    IF threads[1].returned < threads[2].returned
    THEN threads[2].returned - threads[1].returned
    ELSE threads[1].returned - threads[2].returned

BothReadBeforeEitherWrote == \A t \in Threads : threads[t].writes_seen = 0

\* C32: once both threads have returned from wait_if_needed() on the shared
\* limiter, the two returns are at least min_interval apart whenever the
\* calls were serialized; they are closer than min_interval only when the
\* calls were not serialized and both threads read last_call_time before
\* either wrote it.
C32_SharedLimiterRace ==
    BothReturned =>
        /\ serialized => ReturnGap >= min_interval_of(calls_per_minute)
        /\ ReturnGap < min_interval_of(calls_per_minute) =>
            ~serialized /\ BothReadBeforeEitherWrote

\* two unserialized calls that both read before either wrote and returned
\* less than min_interval apart
C32_Witness ==
    /\ BothReturned
    /\ ~serialized
    /\ BothReadBeforeEitherWrote
    /\ ReturnGap < min_interval_of(calls_per_minute)

====
